---- MODULE Spec2Model ----
(***************************************************************************)
(* Verification model of the influai/scrappers ingestion pipeline:         *)
(* the FloodCaretaker rate controller, the Peers entity cache, the         *)
(* normalized post batch upsert, the windowed post scraper, the run        *)
(* ledger and the RabbitMQ task consumer.                                  *)
(*                                                                         *)
(* Conventions.  Python None of an integer-valued field is modelled by     *)
(* NoneT (-1) for times and by 0 for platform ids (real ids are positive   *)
(* and 0 is falsy for any() exactly as None is).  Wall-clock time is the   *)
(* variable now, counted in ticks of 1/TicksPerSec seconds.  Dates are     *)
(* integers: the naive datetime the consumer parses and the aware dates    *)
(* of the platform's messages are taken to be comparable.  One delivery    *)
(* handled by process_task is one step; the platform, the store and the    *)
(* broker may fail once inside it.  SpecWorkers alone takes a delivery     *)
(* apart at its awaits and interleaves the workers' coroutines.            *)
(***************************************************************************)
EXTENDS Integers, Sequences, FiniteSets, TLC

\* ----------------------------------------------------------------- bounds
MaxTime == 1            \* last tick of the clock
MaxOps == 2             \* batch-level operations of one behaviour of SpecBatch
MaxLegacyOps == 3       \* tasks of the earlier worker in one behaviour of SpecLegacy
MaxPeerCalls == 3       \* get_peer calls in one behaviour of SpecPeer
MaxFloodTime == 6       \* last tick of the clock of SpecFlood
MaxFweSecs == 2         \* longest wait, in seconds, a FloodWaitError reports
MaxCallDelay == 2       \* longest get_inp_ent_delay, in ticks
MaxMsgs == 4            \* most messages the source of SpecRun holds
MaxBatchSize == 3       \* largest batch_size tried in SpecRun
MaxDate == 3            \* last date of SpecLedger
MaxRuns == 2            \* most runs recorded in one behaviour of SpecLedger
MaxTasks == 2           \* most tasks submitted in one behaviour of Spec
MaxDeliveries == 2      \* most deliveries handled in one behaviour of Spec
ChannelPosts == 3       \* posts in the history of the known channel
BatchSize == 2          \* batch_size of PostScraper.run, scaled down from 200
IterLimit == 4          \* limit of PostScraper.run, scaled down from 20000
MaxWorkerTasks == 2     \* most tasks sent in one behaviour of SpecWorkers

\* -------------------------------------------------------------- constants
NoneT == 0 - 1          \* Python None of a time-valued field
TicksPerSec == 2        \* resolution of the modelled clock

VARIABLES
    now,        \* time.time() / datetime.now(), in ticks
    db,         \* the relational store: one set of rows per table
    bt,         \* observation of the last batch-level operation
    fc,         \* one FloodCaretaker (SpecFlood)
    chk,        \* observation of the last check() and the last add_fwe()
    rs,         \* SpecRun: the source, the run's parameters and its result
    lg,         \* SpecLedger: runs_info and the last legacy scrape_channel
    queue,      \* the RabbitMQ queue "tasks": messages waiting, oldest first
    fcs,        \* the FloodCaretaker of each worker's ChannelScraper
    last,       \* observation of the last delivery handled by process_task
    hist,       \* what the behaviour has seen: submitted tasks, resolved pairs
    wk,         \* SpecWorkers: the process_task coroutines of each worker
    lm,         \* SpecLegacy: the last scrape_channel_metadata of the earlier worker
    gp          \* SpecPeer: observation of the last get_peer call

vars == <<now, db, bt, fc, chk, rs, lg, queue, fcs, last, hist, wk, lm, gp>>
consumerVars == <<queue, fcs, last, hist>>

\* ------------------------------------------------------------- utilities
Max(S) == CHOOSE x \in S : \A y \in S : y <= x
Min(S) == CHOOSE x \in S : \A y \in S : x <= y

\* The value of a singleton set: Once({F(x) : x \in {e}}) is F(e) with e
\* evaluated a single time.
Once(S) == CHOOSE v \in S : TRUE

\* A key generated by the store for a new row of a table.
NextId(rows) == IF rows = {} THEN 1 ELSE Max({r.id : r \in rows}) + 1

EmptyDb ==
    [peers |-> {}, channels |-> {}, similars |-> {},
     posts_metadata |-> {}, posts_flags |-> {}, posts_metrics |-> {},
     posts_content |-> {}, forwards |-> {}, runs |-> {},
     post |-> {}, post_forwards |-> {}]

\* ------------------------------------------------------ FloodCaretaker
\* FloodCaretaker.__init__.  (ChannelScraper.__init__ calls FloodCaretaker()
\* with no argument; the delay is taken here as a configuration value.)
FloodCaretakerInit(delay) ==
    [get_inp_ent_delay |-> delay, last_get_inp_ent_call |-> NoneT,
     fwe_delay |-> NoneT, last_fwe |-> NoneT]

\* A faulty variant of check: a running FloodWaitError wait is not looked at.
MutantCheckIgnoresCooldown(f, t) ==
    LET wake == IF f.last_get_inp_ent_call # NoneT
                   /\ (t - f.last_get_inp_ent_call) < f.get_inp_ent_delay
                THEN f.last_get_inp_ent_call + f.get_inp_ent_delay
                ELSE t
    IN  [raised |-> FALSE, seconds |-> 0,
         fc |-> [f EXCEPT !.last_get_inp_ent_call = wake], now |-> wake]

\* A faulty variant of check: the wait is still enforced at the instant it ends.
MutantCheckInclusive(f, t) ==
    IF f.fwe_delay # NoneT /\ (t - f.last_fwe) <= f.fwe_delay
    THEN [raised |-> TRUE, seconds |-> (f.fwe_delay - (t - f.last_fwe)) \div TicksPerSec,
          fc |-> f, now |-> t]
    ELSE LET wake == IF f.last_get_inp_ent_call # NoneT
                        /\ (t - f.last_get_inp_ent_call) < f.get_inp_ent_delay
                     THEN f.last_get_inp_ent_call + f.get_inp_ent_delay
                     ELSE t
         IN  [raised |-> FALSE, seconds |-> 0,
              fc |-> [f EXCEPT !.last_get_inp_ent_call = wake], now |-> wake]

\* FloodCaretaker.check at time t.  While a FloodWaitError is active it
\* raises FloodWaitError(capture = int(remaining seconds)); otherwise it
\* sleeps out what is left of get_inp_ent_delay since the last call and
\* stamps the call.  The result carries the time at which check returns.
check(f, t) ==
    IF f.fwe_delay # NoneT /\ (t - f.last_fwe) < f.fwe_delay
    THEN [raised |-> TRUE, seconds |-> (f.fwe_delay - (t - f.last_fwe)) \div TicksPerSec,
          fc |-> f, now |-> t]
    ELSE LET wake == IF f.last_get_inp_ent_call # NoneT
                        /\ (t - f.last_get_inp_ent_call) < f.get_inp_ent_delay
                     THEN f.last_get_inp_ent_call + f.get_inp_ent_delay
                     ELSE t
         IN  [raised |-> FALSE, seconds |-> 0,
              fc |-> [f EXCEPT !.last_get_inp_ent_call = wake], now |-> wake]

\* FloodCaretaker.add_fwe at time t; the reported seconds are kept in ticks.
add_fwe(f, seconds, t) ==
    [f EXCEPT !.fwe_delay = seconds * TicksPerSec, !.last_fwe = t]

\* ------------------------------------------------ per-post extraction
\* A source message (telethon Message) of the modelled channel:
\*   id, date       post id and publish time
\*   pinned, views  one flag and one metric standing for their tables
\*   reaction       "none" | "paid" | "emoji" | "custom" | "unknown"
\*   raw_text       "" | "t"
\*   poll           "none" | "ok" | "broken" (a poll without results)
\*   fwd            [kind: "none" | "user" | "channel", ch, post]

\* PostScraper.scrape_reactions: an unrecognized variant matches no branch
\* and contributes to no field; it does not raise.
scrape_reactions(post) ==
    [paid     |-> IF post.reaction = "paid" THEN 1 ELSE 0,
     standard |-> IF post.reaction = "emoji" THEN 1 ELSE 0,
     custom   |-> IF post.reaction = "custom" THEN 1 ELSE 0]

\* PostScraper.scrape_poll: raises (AttributeError) on a poll whose results
\* are missing, returns None (0) when there is no poll.
scrape_poll_raises(post) == post.poll = "broken"
scrape_poll(post) == IF post.poll = "ok" THEN 1 ELSE 0

\* PostScraper.scrape_forward: any exception (no fwd_from, or a from_id that
\* is not a channel) gives the all-None record.
scrape_forward(post) ==
    IF post.fwd.kind = "channel"
    THEN [from_ch_id |-> post.fwd.ch, from_post_id |-> post.fwd.post]
    ELSE [from_ch_id |-> 0, from_post_id |-> 0]

\* PostScraper.scrape_post: the five parts of one post, or a raise.
scrape_post(post, channel_id, t) ==
    IF scrape_poll_raises(post)
    THEN [raised |-> TRUE]
    ELSE [raised |-> FALSE,
          posts_metadata |-> [channel_id |-> channel_id, post_id |-> post.id,
                              post_date |-> post.date, scrape_date |-> t],
          posts_flags |-> [pinned |-> post.pinned,
                           fwd_from_flag |-> post.fwd.kind # "none"],
          posts_metrics |-> [views |-> post.views,
                             paid_reactions |-> scrape_reactions(post).paid,
                             standard_reactions |-> scrape_reactions(post).standard,
                             custom_reactions |-> scrape_reactions(post).custom],
          posts_content |-> [raw_text |-> post.raw_text, poll |-> scrape_poll(post)],
          forwards |-> scrape_forward(post)]

\* ------------------------------------------------------ store statements
\* A faulty variant of the metadata upsert: a plain INSERT without ON CONFLICT.
MutantInsertMetadataRow(rows, v) ==
    rows \cup {[id |-> NextId(rows), channel_id |-> v.channel_id, post_id |-> v.post_id,
                post_date |-> v.post_date, scrape_date |-> v.scrape_date]}

\* INSERT ... ON CONFLICT ON CONSTRAINT uq_channel_post DO UPDATE SET
\* post_date, scrape_date: one row of the VALUES list.
UpsertMetadataRow(rows, v) ==
    LET hit == {r \in rows : r.channel_id = v.channel_id /\ r.post_id = v.post_id}
    IN  IF hit # {}
        THEN (rows \ hit) \cup
             {[r EXCEPT !.post_date = v.post_date, !.scrape_date = v.scrape_date] : r \in hit}
        ELSE rows \cup {[id |-> NextId(rows), channel_id |-> v.channel_id,
                         post_id |-> v.post_id, post_date |-> v.post_date,
                         scrape_date |-> v.scrape_date]}

RECURSIVE UpsertMetadata(_, _)
UpsertMetadata(rows, vals) ==
    IF vals = << >> THEN rows
    ELSE Once({UpsertMetadata(r2, Tail(vals)) : r2 \in {UpsertMetadataRow(rows, Head(vals))}})

\* RETURNING id, channel_id, post_id collected into id_map.
IdOf(rows, channel_id, post_id) ==
    (CHOOSE r \in rows : r.channel_id = channel_id /\ r.post_id = post_id).id

\* INSERT ... ON CONFLICT ON CONSTRAINT <table>_pkey DO UPDATE SET every
\* column but id.
RECURSIVE UpsertByPk(_, _)
UpsertByPk(rows, vals) ==
    IF vals = << >> THEN rows
    ELSE Once({UpsertByPk(r2, Tail(vals)) :
                 r2 \in {{r \in rows : r.id # Head(vals).id} \cup {Head(vals)}}})

\* INSERT ... ON CONFLICT ON CONSTRAINT forwards_pkey DO NOTHING.
RECURSIVE InsertIgnoreByPk(_, _)
InsertIgnoreByPk(rows, vals) ==
    IF vals = << >> THEN rows
    ELSE Once({InsertIgnoreByPk(r2, Tail(vals)) :
                 r2 \in {IF \E r \in rows : r.id = Head(vals).id
                          THEN rows ELSE rows \cup {Head(vals)}}})

\* INSERT INTO similars ... ON CONFLICT (base_channel_id, similar_channel_id)
\* DO UPDATE SET similar_channel_name, similar_channel_title.
UpsertSimilarRow(rows, v) ==
    LET hit == {r \in rows : r.base_channel_id = v.base_channel_id
                              /\ r.similar_channel_id = v.similar_channel_id}
    IN  IF hit # {}
        THEN (rows \ hit) \cup
             {[r EXCEPT !.similar_channel_name = v.similar_channel_name,
                        !.similar_channel_title = v.similar_channel_title] : r \in hit}
        ELSE rows \cup {[id |-> NextId(rows), base_channel_id |-> v.base_channel_id,
                         similar_channel_id |-> v.similar_channel_id,
                         similar_channel_name |-> v.similar_channel_name,
                         similar_channel_title |-> v.similar_channel_title]}

RECURSIVE UpsertSimilars(_, _)
UpsertSimilars(rows, vals) ==
    IF vals = << >> THEN rows
    ELSE Once({UpsertSimilars(r2, Tail(vals)) : r2 \in {UpsertSimilarRow(rows, Head(vals))}})

\* -------------------------------------------- PostScraper.scrape_posts_batch
\* A faulty variant of the extraction loop: a raising post aborts the batch
\* and nothing is logged.
MutantExtractBatch(posts, channel_id, t) ==
    LET all == [i \in 1..Len(posts) |-> scrape_post(posts[i], channel_id, t)]
    IN  [rows    |-> SelectSeq(all, LAMBDA pd : ~pd.raised),
         logged  |-> 0,
         aborted |-> \E i \in 1..Len(all) : all[i].raised]

\* The extraction loop: a post whose scrape_post raises is logged and
\* skipped, the others are appended to the five lists in step.
ExtractBatch(posts, channel_id, t) ==
    LET all == [i \in 1..Len(posts) |-> scrape_post(posts[i], channel_id, t)]
    IN  [rows    |-> SelectSeq(all, LAMBDA pd : ~pd.raised),
         logged  |-> Len(SelectSeq(all, LAMBDA pd : pd.raised)),
         aborted |-> FALSE]

\* any(list(content.values())[:-1]) and any(list(fwd_rec.values())[:-1]):
\* the record has a truthy field other than the id appended last.
ContentNotEmpty(c) == c.raw_text # "" \/ c.poll # 0
ForwardNotEmpty(f) == f.from_ch_id # 0 \/ f.from_post_id # 0

\* The statements of the batch transaction, in the order of the code.  The
\* store may fail at the failStmt-th of them (0: no failure; 1 metadata,
\* 2 flags, 3 metrics, 4 content, 5 forwards, 6 commit); get_database_session
\* then rolls the transaction back and re-raises.
BatchStmtCount == 6

\* A faulty variant of the dependent rows: the empty content and forward
\* records are not removed.
MutantBatchRowsUnfiltered(ex, m1) ==
    LET n    == Len(ex.rows)
        meta == [i \in 1..n |-> ex.rows[i].posts_metadata]
        idAt(i) == IdOf(m1, meta[i].channel_id, meta[i].post_id)
    IN  [meta |-> meta,
         flags |-> [i \in 1..n |-> [id |-> idAt(i),
                                    pinned |-> ex.rows[i].posts_flags.pinned,
                                    fwd_from_flag |-> ex.rows[i].posts_flags.fwd_from_flag]],
         metrics |-> [i \in 1..n |->
                        [id |-> idAt(i),
                         views |-> ex.rows[i].posts_metrics.views,
                         paid_reactions |-> ex.rows[i].posts_metrics.paid_reactions,
                         standard_reactions |-> ex.rows[i].posts_metrics.standard_reactions,
                         custom_reactions |-> ex.rows[i].posts_metrics.custom_reactions]],
         content |-> [i \in 1..n |-> [id |-> idAt(i),
                                      raw_text |-> ex.rows[i].posts_content.raw_text,
                                      poll |-> ex.rows[i].posts_content.poll]],
         fwd |-> [i \in 1..n |-> [id |-> idAt(i),
                                  from_ch_id |-> ex.rows[i].forwards.from_ch_id,
                                  from_post_id |-> ex.rows[i].forwards.from_post_id]]]

\* A faulty variant of the id mapping: the dependent rows take their
\* position in the batch as id instead of the id read back from m1.
MutantBatchRowsByPosition(ex, m1) ==
    LET n    == Len(ex.rows)
        meta == [i \in 1..n |-> ex.rows[i].posts_metadata]
        contentAll == [i \in 1..n |-> [id |-> i,
                                       raw_text |-> ex.rows[i].posts_content.raw_text,
                                       poll |-> ex.rows[i].posts_content.poll]]
        fwdAll  == [i \in 1..n |-> [id |-> i,
                                    from_ch_id |-> ex.rows[i].forwards.from_ch_id,
                                    from_post_id |-> ex.rows[i].forwards.from_post_id]]
    IN  [meta |-> meta,
         flags |-> [i \in 1..n |-> [id |-> i,
                                    pinned |-> ex.rows[i].posts_flags.pinned,
                                    fwd_from_flag |-> ex.rows[i].posts_flags.fwd_from_flag]],
         metrics |-> [i \in 1..n |->
                        [id |-> i,
                         views |-> ex.rows[i].posts_metrics.views,
                         paid_reactions |-> ex.rows[i].posts_metrics.paid_reactions,
                         standard_reactions |-> ex.rows[i].posts_metrics.standard_reactions,
                         custom_reactions |-> ex.rows[i].posts_metrics.custom_reactions]],
         content |-> SelectSeq(contentAll, ContentNotEmpty),
         fwd |-> SelectSeq(fwdAll, ForwardNotEmpty)]

\* The rows of the dependent tables for the extracted rows ex, with the ids
\* read back from m1, the posts_metadata table after the first statement;
\* the empty content and forward records are removed.
BatchRows(ex, m1) ==
    LET n    == Len(ex.rows)
        meta == [i \in 1..n |-> ex.rows[i].posts_metadata]
        idAt(i) == IdOf(m1, meta[i].channel_id, meta[i].post_id)
        contentAll == [i \in 1..n |-> [id |-> idAt(i),
                                       raw_text |-> ex.rows[i].posts_content.raw_text,
                                       poll |-> ex.rows[i].posts_content.poll]]
        fwdAll  == [i \in 1..n |-> [id |-> idAt(i),
                                    from_ch_id |-> ex.rows[i].forwards.from_ch_id,
                                    from_post_id |-> ex.rows[i].forwards.from_post_id]]
    IN  [meta |-> meta,
         flags |-> [i \in 1..n |-> [id |-> idAt(i),
                                    pinned |-> ex.rows[i].posts_flags.pinned,
                                    fwd_from_flag |-> ex.rows[i].posts_flags.fwd_from_flag]],
         metrics |-> [i \in 1..n |->
                        [id |-> idAt(i),
                         views |-> ex.rows[i].posts_metrics.views,
                         paid_reactions |-> ex.rows[i].posts_metrics.paid_reactions,
                         standard_reactions |-> ex.rows[i].posts_metrics.standard_reactions,
                         custom_reactions |-> ex.rows[i].posts_metrics.custom_reactions]],
         content |-> SelectSeq(contentAll, ContentNotEmpty),
         fwd |-> SelectSeq(fwdAll, ForwardNotEmpty)]

\* The statements the transaction executes for the rows rw.
BatchExecuted(rw) ==
    IF rw.meta = << >> THEN {}
    ELSE {1, 2, 3, 6} \cup (IF rw.content # << >> THEN {4} ELSE {})
                      \cup (IF rw.fwd # << >> THEN {5} ELSE {})

\* The store after the first upto statements of the transaction.
BatchWrites(d, m1, rw, upto) ==
    [d EXCEPT !.posts_metadata = IF upto >= 1 THEN m1 ELSE @,
              !.posts_flags    = IF upto >= 2 THEN UpsertByPk(@, rw.flags) ELSE @,
              !.posts_metrics  = IF upto >= 3 THEN UpsertByPk(@, rw.metrics) ELSE @,
              !.posts_content  = IF upto >= 4 THEN UpsertByPk(@, rw.content) ELSE @,
              !.forwards       = IF upto >= 5 THEN InsertIgnoreByPk(@, rw.fwd) ELSE @]

\* A faulty variant of the batch transaction: every statement is committed
\* on its own, so a failure leaves the writes of the statements before it.
MutantBatchAutocommit(d, ex, m1, failStmt) ==
    Once({IF ex.aborted
          THEN [ok |-> FALSE, err |-> "Exception", db |-> d, written |-> << >>,
                logged |-> ex.logged]
          ELSE IF failStmt \in BatchExecuted(rw)
          THEN [ok |-> FALSE, err |-> "SQLAlchemyError",
                db |-> BatchWrites(d, m1, rw, failStmt - 1), written |-> << >>,
                logged |-> ex.logged]
          ELSE [ok |-> TRUE, err |-> "",
                db |-> IF rw.meta = << >> THEN d ELSE BatchWrites(d, m1, rw, 5),
                written |-> rw.meta, logged |-> ex.logged] :
            rw \in {BatchRows(ex, m1)}})

\* The statements of the transaction on the extracted rows ex, m1 being the
\* posts_metadata table after the first of them: on a failure
\* get_database_session rolls back, and the store is as before the batch.
batch_transaction(d, ex, m1, failStmt) ==
    Once({IF ex.aborted
          THEN [ok |-> FALSE, err |-> "Exception", db |-> d, written |-> << >>,
                logged |-> ex.logged]
          ELSE IF failStmt \in BatchExecuted(rw)
          THEN [ok |-> FALSE, err |-> "SQLAlchemyError", db |-> d, written |-> << >>,
                logged |-> ex.logged]
          ELSE [ok |-> TRUE, err |-> "",
                db |-> IF rw.meta = << >> THEN d ELSE BatchWrites(d, m1, rw, 5),
                written |-> rw.meta, logged |-> ex.logged] :
            rw \in {BatchRows(ex, m1)}})

scrape_posts_batch(d, posts, channel_id, t, failStmt) ==
    Once({Once({batch_transaction(d, ex, m1, failStmt) :
                  m1 \in {UpsertMetadata(d.posts_metadata,
                             [i \in 1..Len(ex.rows) |-> ex.rows[i].posts_metadata])}}) :
            ex \in {ExtractBatch(posts, channel_id, t)}})

\* A faulty variant of the similars upsert: the edges of the base channel
\* are replaced by the recommendation list.
MutantSimilarsReplace(d, channel_id, chats) ==
    [d EXCEPT !.similars =
        UpsertSimilars({r \in d.similars : r.base_channel_id # channel_id},
            [i \in 1..Len(chats) |-> [base_channel_id |-> channel_id,
                                      similar_channel_id |-> chats[i].id,
                                      similar_channel_name |-> chats[i].username,
                                      similar_channel_title |-> chats[i].title]])]

\* ChannelScraper.scrape_similar_channels, the store part: nothing is
\* written for an empty recommendation list.
similars_upsert(d, channel_id, chats) ==
    IF chats = << >> THEN d
    ELSE [d EXCEPT !.similars = UpsertSimilars(d.similars,
            [i \in 1..Len(chats) |-> [base_channel_id |-> channel_id,
                                      similar_channel_id |-> chats[i].id,
                                      similar_channel_name |-> chats[i].username,
                                      similar_channel_title |-> chats[i].title]])]

\* ------------------------------------------------------- PostScraper.run
\* A faulty variant of the request: the newest limit messages come oldest
\* first, as with reverse=True.
MutantIterMessagesReverse(source, limit) ==
    [i \in 1..(IF Len(source) < limit THEN Len(source) ELSE limit) |->
        source[(IF Len(source) < limit THEN Len(source) ELSE limit) + 1 - i]]

\* tg_client.iter_messages(channel, limit=limit): at most limit messages,
\* newest first.
iter_messages(source, limit) ==
    SubSeq(source, 1, IF Len(source) < limit THEN Len(source) ELSE limit)

\* The parameters of one run: the yielded messages, the channel, from_date,
\* batch_size, the time, and the faults of the environment: iterAt = k > 0
\* makes the source raise iterErr in place of its k-th message, failBatch = j
\* > 0 makes the store fail at statement failStmt of the j-th flushed batch.
RunArgs(msgs, channel_id, from_date, batch_size, t, iterAt, iterErr, failBatch, failStmt) ==
    [msgs |-> msgs, channel_id |-> channel_id, from_date |-> from_date,
     batch_size |-> batch_size, t |-> t, iterAt |-> iterAt, iterErr |-> iterErr,
     failBatch |-> failBatch, failStmt |-> failStmt]

RunFailed(st, err) ==
    [ok |-> FALSE, err |-> err, db |-> st.db, posts_scraped |-> st.posts_scraped,
     flushed |-> st.flushed]

\* await self.scrape_posts_batch(posts_batch); posts_scraped += len(posts_batch)
Flush(c, st, batch) ==
    Once({[ok |-> r.ok, err |-> r.err,
           st |-> [db |-> r.db, posts_batch |-> << >>,
                   posts_scraped |-> st.posts_scraped + Len(batch),
                   flushed |-> Append(st.flushed, batch)]] :
            r \in {scrape_posts_batch(st.db, batch, c.channel_id, c.t,
                        IF c.failBatch = Len(st.flushed) + 1 THEN c.failStmt ELSE 0)}})

\* A faulty variant of the end of run: the remaining partial batch is
\* counted but never flushed.
MutantRunFinishNoFlush(c, st) ==
    [ok |-> TRUE, err |-> "", db |-> st.db,
     posts_scraped |-> st.posts_scraped + Len(st.posts_batch), flushed |-> st.flushed]

\* if posts_batch: flush it; return posts_scraped
RunFinish(c, st) ==
    IF st.posts_batch = << >>
    THEN [ok |-> TRUE, err |-> "", db |-> st.db, posts_scraped |-> st.posts_scraped,
          flushed |-> st.flushed]
    ELSE Once({IF f.ok
               THEN [ok |-> TRUE, err |-> "", db |-> f.st.db,
                     posts_scraped |-> f.st.posts_scraped, flushed |-> f.st.flushed]
               ELSE RunFailed(st, f.err) : f \in {Flush(c, st, st.posts_batch)}})

\* The loop over the yielded messages, from the i-th on.
RECURSIVE RunLoop(_, _, _)
RunLoop(c, st, i) ==
    IF c.iterAt = i THEN RunFailed(st, c.iterErr)
    ELSE IF i > Len(c.msgs) THEN RunFinish(c, st)
    ELSE IF c.msgs[i].date < c.from_date THEN RunFinish(c, st)
    ELSE LET batch == Append(st.posts_batch, c.msgs[i])
         IN  IF Len(batch) >= c.batch_size
             THEN Once({IF f.ok
                        THEN Once({RunLoop(c, st2, i + 1) : st2 \in {f.st}})
                        ELSE RunFailed(st, f.err) : f \in {Flush(c, st, batch)}})
             ELSE Once({RunLoop(c, st2, i + 1) : st2 \in {[st EXCEPT !.posts_batch = batch]}})

run(d, c) ==
    Once({RunLoop(c1, st, 1) :
            c1 \in {c},
            st \in {[db |-> d, posts_batch |-> << >>, posts_scraped |-> 0,
                     flushed |-> << >>]}})

\* ------------------------------------ legacy run ledger (channel-scrapper)
\* utils.last_old_dates: (latest to_date, oldest from_date) of the runs
\* recorded for channel_url, or (None, None).
last_old_dates(runs_info, channel_url) ==
    LET channel_data == SelectSeq(runs_info, LAMBDA r : r.channel_url = channel_url)
    IN  IF channel_data = << >>
        THEN [latest |-> NoneT, oldest |-> NoneT]
        ELSE [latest |-> Max({channel_data[i].to_date : i \in 1..Len(channel_data)}),
              oldest |-> Min({channel_data[i].from_date : i \in 1..Len(channel_data)})]

\* channel_scrappers.scrape_channel: the from_date the messages are
\* requested from (offset_date).
EffectiveFromDate(runs_info, channel_url, from_date) ==
    LET lo == last_old_dates(runs_info, channel_url)
    IN  IF lo.latest # NoneT /\ lo.oldest # NoneT /\ from_date > lo.oldest
        THEN lo.latest ELSE from_date

\* The legacy source holds one message per date 1..MaxDate;
\* iter_messages(reverse=True, offset_date=d) yields those after d, oldest
\* first, and the loop stops at the first one after to_date.
LegacyPostsScraped(start, to_date) ==
    Cardinality({x \in 1..MaxDate : x > start /\ x <= to_date})

\* channel_scrappers.scrape_channel and utils.save_run: the ledger after
\* the call; prepared is whether prepare_channel returned a directory.
legacy_scrape_channel(runs_info, channel_url, from_date, to_date, prepared) ==
    IF ~prepared THEN runs_info
    ELSE LET start == EffectiveFromDate(runs_info, channel_url, from_date)
         IN  Append(runs_info, [channel_url |-> channel_url, from_date |-> start,
                                to_date |-> to_date,
                                posts_scrapped |-> LegacyPostsScraped(start, to_date)])

\* ====================================================================
\* SpecBatch: the batch-level store operations applied to batches of
\* observations of one channel's posts, and to recommendation lists.
\* ====================================================================
TheChannel == 1         \* platform id of the channel being scraped
OtherChannel == 2       \* platform id of another channel

Msg(id, text, poll, fwdKind) ==
    [id |-> id, date |-> id, pinned |-> FALSE, views |-> 0,
     reaction |-> IF poll = "ok" THEN "unknown" ELSE "none",
     raw_text |-> text, poll |-> poll,
     fwd |-> [kind |-> IF fwdKind = "self" THEN "channel" ELSE fwdKind,
              ch   |-> IF fwdKind = "channel" THEN OtherChannel
                       ELSE IF fwdKind = "self" THEN TheChannel ELSE 0,
              post |-> IF fwdKind \in {"channel", "self"} THEN 5 ELSE 0]]

\* The observations of post id: what the source may return for it.
Obs(id) ==
    IF id = 1 THEN {Msg(1, "t", "none", "self"), Msg(1, "", "none", "none")}
    ELSE IF id = 2 THEN {Msg(2, "", "broken", "none")}
    ELSE {Msg(3, "", "ok", "channel"), Msg(3, "t", "broken", "user")}

\* Batches as iter_messages yields them: newest post first, each post id at
\* most once, never empty (run flushes only non-empty batches).
Batches ==
    {b \in UNION {[1..n -> UNION {Obs(i) : i \in 1..3}] : n \in 1..3} :
        \A i \in 1..(Len(b) - 1) : b[i].id > b[i + 1].id}

Chat(id, name) == [id |-> id, username |-> name, title |-> name]
ChatLists == {<<Chat(3, "c")>>, <<Chat(3, "c2")>>, <<Chat(3, "c"), Chat(4, "d")>>, << >>}

BtInit ==
    [kind |-> "init", posts |-> << >>, chats |-> << >>, ok |-> TRUE, prev |-> EmptyDb,
     written |-> << >>, logged |-> 0, repeat |-> FALSE, at |-> 0, storeFailed |-> FALSE, ops |-> 0]

ChkInit ==
    [result |-> "none", at |-> 0, ret |-> 0, seconds |-> 0, limAt |-> NoneT, limSecs |-> 0]

RsInit ==
    [src |-> << >>, batch_size |-> 1, limit |-> 1, from_date |-> 0, ran |-> FALSE,
     ok |-> TRUE, flushed |-> << >>, posts_scraped |-> 0]

LgInit ==
    [runs_info |-> << >>, ran |-> FALSE, prepared |-> FALSE, url |-> 0, req |-> 0,
     to |-> 0, start |-> 0, prior |-> << >>]

\* ------------------------------------------------- the consumers at rest
\* The workers, named by their scraper_id (the api_id of their account).
Workers == {1, 2}

\* A task message body after json.loads: decodable is whether the body
\* is JSON at all; has_name / date say what task.get returns for
\* "channel_name" and "from_date" ("none" = key absent, "bad" = a string
\* that is not DD-MM-YYYY, "ok" = the date from_date).
Task(decodable, type, has_name, channel_name, date, from_date) ==
    [decodable |-> decodable, type |-> type, has_name |-> has_name,
     channel_name |-> channel_name, date |-> date, from_date |-> from_date]

LastInit ==
    [id |-> 0, w |-> 0, body |-> Task(FALSE, "", FALSE, << >>, "none", 0),
     outcome |-> "none", err |-> "", at |-> "none", ack_flag |-> TRUE, acked |-> FALSE,
     republished |-> FALSE, raised |-> FALSE, calls |-> {}, prev |-> EmptyDb,
     start |-> 0, peerOk |-> FALSE, wasResolved |-> FALSE, ref |-> EmptyDb,
     retried |-> FALSE, fcPrev |-> FloodCaretakerInit(0), fweSecs |-> 0]

HistInit ==
    [submitted |-> 0, deliveries |-> 0, resolved |-> {}, failed |-> {}, permanent |-> {}]

\* No coroutine is running and no task was sent.
WkInit == [procs |-> [w \in Workers |-> {}], sent |-> 0]

LmInit ==
    [ran |-> FALSE, channel_id |-> 0, chats |-> << >>, err |-> "", calls |-> {},
     committed |-> FALSE, session |-> EmptyDb, prev |-> EmptyDb, ops |-> 0,
     scraper_id |-> 0, hit |-> FALSE, peer |-> [channel_id |-> 0, access_hash |-> 0],
     pc |-> "idle", msgs |-> << >>]

GpInit ==
    [ran |-> FALSE, w |-> 0, prev |-> FloodCaretakerInit(0), start |-> 0, ok |-> FALSE,
     err |-> "", calls |-> {}, ops |-> 0]

ConsumerIdle ==
    /\ queue = << >> /\ fcs = [w \in Workers |-> FloodCaretakerInit(0)]
    /\ last = LastInit /\ hist = HistInit /\ wk = WkInit /\ lm = LmInit
    /\ gp = GpInit

InitBatch ==
    /\ ConsumerIdle
    /\ now = 0 /\ db = EmptyDb /\ bt = BtInit
    /\ fc = FloodCaretakerInit(0) /\ chk = ChkInit /\ rs = RsInit /\ lg = LgInit

BatchTick == now < MaxTime /\ now' = now + 1 /\ UNCHANGED <<db, bt, fc, chk, rs, lg, queue, fcs, last, hist, wk, lm, gp>>

\* One call of scrape_posts_batch.
ProcessBatch ==
    /\ bt.ops < MaxOps
    /\ \E posts \in Batches, failStmt \in 0..BatchStmtCount :
         LET res == scrape_posts_batch(db, posts, TheChannel, now, failStmt)
         IN  /\ db' = res.db
             /\ bt' = [kind |-> "posts", posts |-> posts, chats |-> << >>, ok |-> res.ok,
                       prev |-> db, written |-> res.written, logged |-> res.logged,
                       repeat |-> bt.kind = "posts" /\ bt.ok /\ res.ok /\ bt.posts = posts,
                       at |-> now, storeFailed |-> res.err = "SQLAlchemyError",
                       ops |-> bt.ops + 1]
    /\ UNCHANGED <<now, fc, chk, rs, lg, queue, fcs, last, hist, wk, lm, gp>>

\* One upsert of a recommendation list.
ProcessSimilars ==
    /\ bt.ops < MaxOps
    /\ \E chats \in ChatLists :
         /\ db' = similars_upsert(db, TheChannel, chats)
         /\ bt' = [kind |-> "similars", posts |-> << >>, chats |-> chats, ok |-> TRUE,
                   prev |-> db, written |-> << >>, logged |-> 0,
                   repeat |-> bt.kind = "similars" /\ bt.chats = chats,
                   at |-> now, storeFailed |-> FALSE, ops |-> bt.ops + 1]
    /\ UNCHANGED <<now, fc, chk, rs, lg, queue, fcs, last, hist, wk, lm, gp>>

NextBatch == BatchTick \/ ProcessBatch \/ ProcessSimilars

SpecBatch == InitBatch /\ [][NextBatch]_vars

\* The store with the scrape timestamps of the posts blanked.
StripScrapeDate(d) ==
    [d EXCEPT !.posts_metadata = {[r EXCEPT !.scrape_date = 0] : r \in @}]

\* No table holds two rows for one key.
NoDuplicateRows(d) ==
    /\ \A r1, r2 \in d.posts_metadata :
         (r1.channel_id = r2.channel_id /\ r1.post_id = r2.post_id) => r1 = r2
    /\ \A r1, r2 \in d.posts_flags : r1.id = r2.id => r1 = r2
    /\ \A r1, r2 \in d.posts_metrics : r1.id = r2.id => r1 = r2
    /\ \A r1, r2 \in d.posts_content : r1.id = r2.id => r1 = r2
    /\ \A r1, r2 \in d.forwards : r1.id = r2.id => r1 = r2
    /\ \A r1, r2 \in d.similars :
         (r1.base_channel_id = r2.base_channel_id
            /\ r1.similar_channel_id = r2.similar_channel_id) => r1 = r2

\* C3 (as stated): after the identical batch (of posts, or of recommended
\* channels) was processed a second time, the stored rows are exactly those
\* left by the first processing.
C3_SameRowsAsOnce == bt.repeat => db = bt.prev

\* C3 (amended): after the identical batch was processed a second time, the
\* stored rows are those left by the first processing except for the
\* scrape_date of the batch's posts, which is the time of the second
\* processing; no table holds two rows for one (channel id, post id), one
\* post key or one (base, similar) edge.
C3_SameRowsUpToScrapeDate ==
    bt.repeat =>
        /\ StripScrapeDate(db) = StripScrapeDate(bt.prev)
        /\ db.similars = bt.prev.similars
        /\ NoDuplicateRows(db)
        /\ \A i \in 1..Len(bt.written) :
             \E r \in db.posts_metadata :
                /\ r.channel_id = bt.written[i].channel_id
                /\ r.post_id = bt.written[i].post_id
                /\ r.scrape_date = bt.at

\* C3 witness: a batch of two persisted posts, one of them a forward, was
\* processed again at a later time than its first processing.
C3_Witness ==
    /\ bt.repeat /\ bt.kind = "posts" /\ Len(bt.written) >= 2
    /\ db.forwards # {} /\ db.posts_content # {}
    /\ \E r \in bt.prev.posts_metadata : r.scrape_date < bt.at

\* The posts of the last batch whose extraction raises.
FailedPosts == {i \in 1..Len(bt.posts) : scrape_post(bt.posts[i], TheChannel, bt.at).raised}

\* C8: a batch of n posts of which k fail extraction, processed while the
\* store works, does not fail; it logs k skips and persists exactly the
\* n - k other posts, leaving the rows of the k failed posts as they were.
C8_PartialBatch ==
    (bt.kind = "posts" /\ ~bt.storeFailed) =>
        /\ bt.ok
        /\ bt.logged = Cardinality(FailedPosts)
        /\ Len(bt.written) = Len(bt.posts) - Cardinality(FailedPosts)
        /\ \A i \in 1..Len(bt.posts) :
             LET mine(d) == {r \in d.posts_metadata :
                               r.channel_id = TheChannel /\ r.post_id = bt.posts[i].id}
             IN  IF i \in FailedPosts
                 THEN mine(db) = mine(bt.prev)
                 ELSE /\ Cardinality(mine(db)) = 1
                      /\ \A r \in mine(db) : r.post_date = bt.posts[i].date
                                               /\ r.scrape_date = bt.at

\* C8 witness: a batch of three posts, one of which failed extraction, has
\* persisted the two others and logged one skip.
C8_Witness ==
    /\ bt.kind = "posts" /\ ~bt.storeFailed /\ bt.ok
    /\ Len(bt.posts) = 3 /\ bt.logged = 1 /\ Len(bt.written) = 2
    /\ Cardinality(db.posts_metadata) = 2

\* ====================================================================
\* SpecFlood: one FloodCaretaker driven through its two methods while the
\* clock advances.
\* ====================================================================
InitFlood ==
    /\ ConsumerIdle
    /\ now = 0 /\ db = EmptyDb /\ bt = BtInit /\ chk = ChkInit
    /\ rs = RsInit /\ lg = LgInit
    /\ \E delay \in 0..MaxCallDelay : fc = FloodCaretakerInit(delay)

FloodTick ==
    now < MaxFloodTime /\ now' = now + 1 /\ UNCHANGED <<db, bt, fc, chk, rs, lg, queue, fcs, last, hist, wk, lm, gp>>

\* A call of check(); the caller is suspended while check sleeps.
FloodCheck ==
    LET res == check(fc, now)
    IN  /\ res.now <= MaxFloodTime
        /\ fc' = res.fc
        /\ now' = res.now
        /\ chk' = [chk EXCEPT !.result = IF res.raised THEN "limited" ELSE "ok",
                               !.at = now, !.ret = res.now, !.seconds = res.seconds]
        /\ UNCHANGED <<db, bt, rs, lg, queue, fcs, last, hist, wk, lm, gp>>

\* A call of add_fwe(seconds).
FloodAddFwe ==
    \E seconds \in 0..MaxFweSecs :
        /\ fc' = add_fwe(fc, seconds, now)
        /\ chk' = [chk EXCEPT !.result = "none", !.limAt = now, !.limSecs = seconds]
        /\ UNCHANGED <<now, db, bt, rs, lg, queue, fcs, last, hist, wk, lm, gp>>

NextFlood == FloodTick \/ FloodCheck \/ FloodAddFwe

SpecFlood == InitFlood /\ [][NextFlood]_vars

\* C6: a check() called after add_fwe(T) was called at time t (and before
\* any later add_fwe) fails with the rate-limited error carrying the
\* remaining wait in whole seconds when it is called before t + T, and
\* succeeds when it is called at or after t + T.
C6_RateGate ==
    (chk.result # "none" /\ chk.limAt # NoneT) =>
        IF chk.at < chk.limAt + chk.limSecs * TicksPerSec
        THEN /\ chk.result = "limited"
             /\ chk.seconds = (chk.limAt + chk.limSecs * TicksPerSec - chk.at) \div TicksPerSec
        ELSE chk.result = "ok"

\* C6 witness: a check() made strictly inside the wait of a recorded limit,
\* at a time that is not a whole number of seconds before its end.
C6_Witness ==
    /\ chk.result = "limited" /\ chk.limAt # NoneT /\ chk.at > chk.limAt
    /\ chk.limSecs = 2 /\ chk.seconds = 1
    /\ (chk.limAt + chk.limSecs * TicksPerSec - chk.at) = 3

\* ====================================================================
\* SpecRun: PostScraper.run over a source of up to MaxMsgs messages, for
\* every batch_size up to MaxBatchSize, every limit and every from_date.
\* ====================================================================
\* The i-th published post of the channel; the second one has a poll
\* without results.
SrcMsg(i) == Msg(i, "t", IF i = 2 THEN "broken" ELSE "none", "none")

\* The channel's history with n posts, newest first.
Source(n) == [i \in 1..n |-> SrcMsg(n + 1 - i)]

InitRun ==
    /\ ConsumerIdle
    /\ now = 0 /\ db = EmptyDb /\ bt = BtInit /\ chk = ChkInit /\ lg = LgInit
    /\ fc = FloodCaretakerInit(0)
    /\ \E n \in 0..MaxMsgs, b \in 1..MaxBatchSize, l \in 1..(MaxMsgs + 1),
          fd \in 0..(MaxMsgs + 1) :
         rs = [RsInit EXCEPT !.src = Source(n), !.batch_size = b, !.limit = l,
                             !.from_date = fd]

\* One call of PostScraper.run while the store works or fails in one batch.
RunPosts ==
    /\ ~rs.ran
    /\ \E failBatch \in 0..2 :
         LET r == run(db, RunArgs(iter_messages(rs.src, rs.limit), TheChannel,
                                  rs.from_date, rs.batch_size, now, 0, "", failBatch, 1))
         IN  /\ db' = r.db
             /\ rs' = [rs EXCEPT !.ran = TRUE, !.ok = r.ok, !.flushed = r.flushed,
                                  !.posts_scraped = r.posts_scraped]
    /\ UNCHANGED <<now, bt, fc, chk, lg, queue, fcs, last, hist, wk, lm, gp>>

\* A new post is published before the run.
RunPublish ==
    /\ ~rs.ran /\ Len(rs.src) < MaxMsgs
    /\ rs' = [rs EXCEPT !.src = Source(Len(rs.src) + 1)]
    /\ UNCHANGED <<now, db, bt, fc, chk, lg, queue, fcs, last, hist, wk, lm, gp>>

NextRun == RunPosts \/ RunPublish

SpecRun == InitRun /\ [][NextRun]_vars

\* The in-range messages the source yields: those among the newest limit
\* messages published at or after from_date.
InRange ==
    SelectSeq(iter_messages(rs.src, rs.limit), LAMBDA m : m.date >= rs.from_date)

RECURSIVE Concat(_)
Concat(ss) == IF ss = << >> THEN << >> ELSE Head(ss) \o Concat(Tail(ss))

\* C9: a run over N in-range messages with batch size B that completes has
\* flushed ceil(N / B) batches, every one but possibly the last of exactly B
\* posts and none empty, the batches in order are the in-range messages
\* (each in exactly one batch), and the run reports N posts.
C9_Batching ==
    (rs.ran /\ rs.ok) =>
        LET N == Len(InRange)
            B == rs.batch_size
        IN  /\ Len(rs.flushed) = (N + B - 1) \div B
            /\ \A j \in 1..Len(rs.flushed) :
                 /\ Len(rs.flushed[j]) >= 1
                 /\ j < Len(rs.flushed) => Len(rs.flushed[j]) = B
            /\ Concat(rs.flushed) = InRange
            /\ rs.posts_scraped = N

\* C9 witness: three in-range messages with batch size two were flushed as
\* a full batch and a partial last batch.
C9_Witness ==
    /\ rs.ran /\ rs.ok /\ rs.batch_size = 2 /\ Len(InRange) = 3
    /\ Len(rs.flushed) = 2 /\ Len(rs.flushed[1]) = 2 /\ Len(rs.flushed[2]) = 1
    /\ Len(InRange) < Len(rs.src)

\* ====================================================================
\* SpecLedger: the legacy scraper run again and again over two channels
\* with its CSV ledger of runs.
\* ====================================================================
InitLedger ==
    /\ ConsumerIdle
    /\ now = 0 /\ db = EmptyDb /\ bt = BtInit /\ chk = ChkInit /\ rs = RsInit
    /\ fc = FloodCaretakerInit(0) /\ lg = LgInit

LegacyScrape ==
    /\ Len(lg.runs_info) < MaxRuns
    /\ \E url \in {1, 2}, from_date \in 0..MaxDate, prepared \in BOOLEAN :
         \E to_date \in from_date..MaxDate :
            lg' = [runs_info |-> legacy_scrape_channel(lg.runs_info, url, from_date,
                                                       to_date, prepared),
                   ran |-> TRUE, prepared |-> prepared, url |-> url, req |-> from_date,
                   to |-> to_date,
                   start |-> EffectiveFromDate(lg.runs_info, url, from_date),
                   prior |-> lg.runs_info]
    /\ UNCHANGED <<now, db, bt, fc, chk, rs, queue, fcs, last, hist, wk, lm, gp>>

\* The ledger file is started afresh.
LegacyReset ==
    /\ lg.runs_info # << >>
    /\ lg' = LgInit
    /\ UNCHANGED <<now, db, bt, fc, chk, rs, queue, fcs, last, hist, wk, lm, gp>>

NextLedger == LegacyScrape \/ LegacyReset

SpecLedger == InitLedger /\ [][NextLedger]_vars

\* The runs recorded for the channel of the last request before it.
PriorRuns == SelectSeq(lg.prior, LAMBDA r : r.channel_url = lg.url)

\* C5: with one prior run of the channel covering [D1, D2], a request with
\* from_date D0 < D1 is streamed from D0, and a request with from_date D1'
\* for any D1 <= D1' <= D2 is streamed from D2.
C5_Resume ==
    (lg.ran /\ lg.prepared /\ Len(PriorRuns) = 1) =>
        LET D1 == PriorRuns[1].from_date
            D2 == PriorRuns[1].to_date
        IN  /\ lg.req < D1 => lg.start = lg.req
            /\ (D1 <= lg.req /\ lg.req <= D2) => lg.start = D2

\* ====================================================================
\* The task pipeline: ChannelScraper.scrape and Consumer.process_task.
\* ====================================================================
\* ----------------------------------------------------- channel handles
\* Handles are sequences of characters; \w is the class WordChars.
WordChars == {"n", "x", "7", "_"}
NL == "\n"
GoodName == <<"n">>             \* the handle of the known channel
MissingName == <<"x", "7">>     \* a well-formed handle nobody occupies
AtName == <<"@", "n">>          \* a handle as TaskManager sends it

\* ChannelScraper.check_channel_name: bool(re.match(r"^\w+$", name)); the
\* `$` also matches before one trailing newline.
check_channel_name(name) ==
    LET stem == IF name # << >> /\ name[Len(name)] = NL
                THEN SubSeq(name, 1, Len(name) - 1) ELSE name
    IN  stem # << >> /\ \A i \in 1..Len(stem) : stem[i] \in WordChars

\* ---------------------------------------------------- the platform
\* The channel id the platform resolves a handle to, 0 if unoccupied.
Directory(name) == IF name = GoodName THEN TheChannel ELSE 0

\* The access_hash the platform gives account w for a channel.
AccessHash(w, channel_id) == 10 * w + channel_id

\* GetFullChannelRequest and GetChannelRecommendationsRequest results.
FullChannel(channel_id) ==
    [id |-> channel_id, title |-> "T", participants_count |-> 5, pinned_msg_id |-> 0,
     about |-> "A"]
Recommendations(channel_id) == <<Chat(3, "c")>>

\* The channel's history, newest first.
History(channel_id) == IF channel_id = TheChannel THEN Source(ChannelPosts) ELSE << >>

\* ------------------------------------------------------------- faults
\* The except clauses of ChannelScraper.scrape.
ScraperBoundErrors ==
    {"SQLAlchemyError", "AuthKeyPermEmptyError", "SessionPasswordNeededError",
     "TimeoutError", "AuthKeyDuplicatedError", "PeerIdInvalidError", "FloodWaitError"}
TaskBoundErrors ==
    {"UsernameInvalidError", "UsernameNotOccupiedError", "ValueError",
     "ChannelInvalidError", "ChannelPrivateError", "ChannelPublicGroupNaError",
     "ChatIdInvalidError", "AssertionError"}

\* What the resolution call may raise; ConnectionError stands for the
\* exceptions no except clause names.
SourceErrors ==
    (ScraperBoundErrors \ {"SQLAlchemyError"}) \cup (TaskBoundErrors \ {"AssertionError"})
        \cup {"ConnectionError"}

\* What the calls on a resolved channel may raise.
ChannelErrors == {"FloodWaitError", "TimeoutError", "ChannelPrivateError", "ConnectionError"}

\* One fault of the environment during a task: the call it hits (at), the
\* exception, the seconds of a FloodWaitError, and for "iter" / "batch" the
\* message or batch it hits.
Fault(at, err, k) ==
    [at |-> at, err |-> err, seconds |-> IF err = "FloodWaitError" THEN 1 ELSE 0, k |-> k]
NoFault == Fault("none", "", 0)
StorePoints == {"peer_select", "peer_insert", "channel_upsert", "similars_upsert", "run_insert"}
SourcePoints == {"full_channel", "recommendations"}
Faults ==
    {NoFault}
        \cup {Fault(a, "SQLAlchemyError", 0) : a \in StorePoints}
        \cup {Fault("batch", "SQLAlchemyError", k) : k \in 1..2}
        \cup {Fault("resolve", e, 0) : e \in SourceErrors}
        \cup {[Fault("resolve", "FloodWaitError", 0) EXCEPT !.seconds = s] :
                  s \in 1..MaxFweSecs}
        \cup {Fault(a, e, 0) : a \in SourcePoints, e \in ChannelErrors}
        \cup {Fault("iter", e, k) : e \in ChannelErrors, k \in {1, 3}}
        \cup {Fault("resolve", "AssertionError", 0)}

\* --------------------------------------------------- ChannelScraper steps
NoChannel == [channel_id |-> 0, access_hash |-> 0]

\* A faulty variant of the lookup: it never finds a row.
MutantPeersSelectMiss(d, w, name) == {}

\* get_peer's first transaction: select(Peers).where(channel_name, scraper_id).
peers_select(d, w, name) == {p \in d.peers : p.channel_name = name /\ p.scraper_id = w}

\* A faulty variant of get_peer: flood_care.check() is not called before
\* the ResolveUsername call.
MutantResolveCallUnchecked(f, w, name, t, fault) ==
    LET id == Directory(name)
        Raise(err, f2, calls) ==
            [ok |-> FALSE, err |-> err, fc |-> f2, now |-> t, calls |-> calls,
             channel |-> NoChannel]
    IN  IF fault.at = "resolve" /\ fault.err = "FloodWaitError"
        THEN Raise("FloodWaitError", add_fwe(f, fault.seconds, t), {"resolve"})
        ELSE IF fault.at = "resolve" THEN Raise(fault.err, f, {"resolve"})
        ELSE IF id = 0 THEN Raise("UsernameNotOccupiedError", f, {"resolve"})
        ELSE [ok |-> TRUE, err |-> "", fc |-> f, now |-> t, calls |-> {"resolve"},
              channel |-> [channel_id |-> id, access_hash |-> AccessHash(w, id)]]

\* A faulty variant of get_peer: a FloodWaitError of the ResolveUsername
\* call is raised again without flood_care.add_fwe.
MutantResolveCallUnrecorded(f, w, name, t, fault) ==
    LET c == check(f, t)
        id == Directory(name)
        Raise(err, f2, calls) ==
            [ok |-> FALSE, err |-> err, fc |-> f2, now |-> c.now, calls |-> calls,
             channel |-> NoChannel]
    IN  IF c.raised THEN Raise("FloodWaitError", f, {})
        ELSE IF fault.at = "resolve" THEN Raise(fault.err, c.fc, {"resolve"})
        ELSE IF id = 0 THEN Raise("UsernameNotOccupiedError", c.fc, {"resolve"})
        ELSE [ok |-> TRUE, err |-> "", fc |-> c.fc, now |-> c.now, calls |-> {"resolve"},
              channel |-> [channel_id |-> id, access_hash |-> AccessHash(w, id)]]

\* get_peer between its two transactions: flood_care.check(), the
\* ResolveUsername call and the isinstance assert.
resolve_call(f, w, name, t, fault) ==
    LET c == check(f, t)
        id == Directory(name)
        Raise(err, f2, calls) ==
            [ok |-> FALSE, err |-> err, fc |-> f2, now |-> c.now, calls |-> calls,
             channel |-> NoChannel]
    IN  IF c.raised THEN Raise("FloodWaitError", f, {})
        ELSE IF fault.at = "resolve" /\ fault.err = "FloodWaitError"
        THEN Raise("FloodWaitError", add_fwe(c.fc, fault.seconds, c.now), {"resolve"})
        ELSE IF fault.at = "resolve" THEN Raise(fault.err, c.fc, {"resolve"})
        ELSE IF id = 0 THEN Raise("UsernameNotOccupiedError", c.fc, {"resolve"})
        ELSE [ok |-> TRUE, err |-> "", fc |-> c.fc, now |-> c.now, calls |-> {"resolve"},
              channel |-> [channel_id |-> id, access_hash |-> AccessHash(w, id)]]

\* get_peer's second transaction: db_session.add(Peers(...)).
peers_insert(d, w, name, channel) ==
    [d EXCEPT !.peers = @ \cup
        {[id |-> NextId(d.peers), scraper_id |-> w, channel_name |-> name,
          channel_id |-> channel.channel_id, access_hash |-> channel.access_hash]}]

\* get_peer after the Peers lookup missed.
resolve_username(d, f, w, name, t, fault) ==
    IF fault.at = "peer_select"
    THEN [ok |-> FALSE, err |-> "SQLAlchemyError", db |-> d, fc |-> f, now |-> t,
          calls |-> {}, channel |-> NoChannel]
    ELSE Once({IF ~r.ok
               THEN [ok |-> FALSE, err |-> r.err, db |-> d, fc |-> r.fc, now |-> r.now,
                     calls |-> r.calls, channel |-> NoChannel]
               ELSE IF fault.at = "peer_insert"
               THEN [ok |-> FALSE, err |-> "SQLAlchemyError", db |-> d, fc |-> r.fc,
                     now |-> r.now, calls |-> r.calls, channel |-> NoChannel]
               ELSE [ok |-> TRUE, err |-> "", db |-> peers_insert(d, w, name, r.channel),
                     fc |-> r.fc, now |-> r.now, calls |-> r.calls,
                     channel |-> r.channel] :
                 r \in {resolve_call(f, w, name, t, fault)}})

\* A faulty variant of get_peer: the Peers lookup is skipped.
MutantGetPeerUncached(d, f, w, name, t, fault) == resolve_username(d, f, w, name, t, fault)

\* A faulty variant of the cache hit: flood_care.check() is called before
\* the stored peer is returned.
MutantPeerLoadedChecked(d, f, p, t) ==
    Once({IF c.raised
          THEN [ok |-> FALSE, err |-> "FloodWaitError", db |-> d, fc |-> f, now |-> c.now,
                calls |-> {}, channel |-> NoChannel]
          ELSE [ok |-> TRUE, err |-> "", db |-> d, fc |-> c.fc, now |-> c.now,
                calls |-> {},
                channel |-> [channel_id |-> p.channel_id, access_hash |-> p.access_hash]] :
            c \in {check(f, t)}})

\* get_peer when the lookup found the row p: the stored peer is returned.
peer_loaded(d, f, p, t) ==
    [ok |-> TRUE, err |-> "", db |-> d, fc |-> f, now |-> t, calls |-> {},
     channel |-> [channel_id |-> p.channel_id, access_hash |-> p.access_hash]]

\* ChannelScraper.get_peer of worker w at time t; scalar_one_or_none raises
\* MultipleResultsFound on more than one row.
get_peer(d, f, w, name, t, fault) ==
    LET rows == peers_select(d, w, name)
    IN  IF fault.at = "peer_select" \/ Cardinality(rows) > 1
        THEN [ok |-> FALSE, err |-> "SQLAlchemyError", db |-> d, fc |-> f, now |-> t,
              calls |-> {}, channel |-> NoChannel]
        ELSE IF rows # {} THEN peer_loaded(d, f, CHOOSE p \in rows : TRUE, t)
        ELSE resolve_username(d, f, w, name, t, fault)

\* ChannelScraper.scrape_channel_metadata: GetFullChannelRequest, then the
\* upsert of the Channels row in a transaction of its own.
scrape_channel_metadata(d, channel, name, fault) ==
    LET full == FullChannel(channel.channel_id)
        row == [id |-> full.id, title |-> full.title, name |-> name,
                participants |-> full.participants_count,
                last_pinned_msg_id |-> full.pinned_msg_id, about |-> full.about]
    IN  IF fault.at = "full_channel"
        THEN [ok |-> FALSE, err |-> fault.err, db |-> d, calls |-> {"full_channel"}]
        ELSE IF fault.at = "channel_upsert"
        THEN [ok |-> FALSE, err |-> "SQLAlchemyError", db |-> d, calls |-> {"full_channel"}]
        ELSE [ok |-> TRUE, err |-> "",
              db |-> [d EXCEPT !.channels = {r \in @ : r.id # row.id} \cup {row}],
              calls |-> {"full_channel"}]

\* ChannelScraper.scrape_similar_channels: GetChannelRecommendationsRequest,
\* then the upsert of the Similars rows; nothing here catches an exception.
scrape_similar_channels(d, channel, fault) ==
    LET chats == Recommendations(channel.channel_id)
    IN  IF fault.at = "recommendations"
        THEN [ok |-> FALSE, err |-> fault.err, db |-> d, calls |-> {"recommendations"}]
        ELSE IF chats # << >> /\ fault.at = "similars_upsert"
        THEN [ok |-> FALSE, err |-> "SQLAlchemyError", db |-> d,
              calls |-> {"recommendations"}]
        ELSE [ok |-> TRUE, err |-> "", db |-> similars_upsert(d, channel.channel_id, chats),
              calls |-> {"recommendations"}]

\* ChannelScraper.save_run_info: one new Runs row.
save_run_info(d, channel_id, from_date, scrape_date, posts_scraped, start_time, t, fault) ==
    IF fault.at = "run_insert"
    THEN [ok |-> FALSE, err |-> "SQLAlchemyError", db |-> d]
    ELSE [ok |-> TRUE, err |-> "",
          db |-> [d EXCEPT !.runs = @ \cup
                    {[id |-> NextId(d.runs), channel_id |-> channel_id,
                      from_date |-> from_date, scrape_date |-> scrape_date,
                      posts_scraped |-> posts_scraped, exec_time |-> t - start_time]}]]

\* A faulty variant of the except clauses: the task-bound clause is
\* missing, so every exception ends in a retry.
MutantAckFlagTaskBoundRetried(err) == FALSE

\* The flag ChannelScraper.scrape returns for an exception.
AckFlag(err) ==
    IF err \in ScraperBoundErrors THEN FALSE
    ELSE IF err \in TaskBoundErrors THEN TRUE
    ELSE FALSE

\* The outcome of scrape: the flag, the exception it handled, the step it
\* stopped in, the store, the caretaker, the time, the platform calls made.
ScrapeEnd(err, step, d, f, t, calls, peerOk) ==
    [ack_flag |-> IF err = "" THEN TRUE ELSE AckFlag(err), err |-> err, step |-> step,
     db |-> d, fc |-> f, now |-> t, calls |-> calls, peerOk |-> peerOk]

\* A faulty variant of the end of scrape: the run record is saved before
\* the posts are scraped.
MutantScrapeLedgerFirst(p, d, calls, from_date, t, fault) ==
    Once({IF ~v.ok
          THEN ScrapeEnd(v.err, "run_info", v.db, p.fc, p.now, calls, TRUE)
          ELSE Once({IF ~r.ok
                     THEN ScrapeEnd(r.err, "posts", r.db, p.fc, p.now,
                                    calls \cup {"iter"}, TRUE)
                     ELSE ScrapeEnd("", "done", r.db, p.fc, p.now, calls \cup {"iter"}, TRUE) :
                       r \in {run(v.db, RunArgs(iter_messages(History(p.channel.channel_id),
                                                              IterLimit),
                                  p.channel.channel_id, from_date, BatchSize, p.now,
                                  IF fault.at = "iter" THEN fault.k ELSE 0, fault.err,
                                  IF fault.at = "batch" THEN fault.k ELSE 0, 3))}}) :
            v \in {save_run_info(d, p.channel.channel_id, from_date, t, 0, t, p.now, fault)}})

\* ChannelScraper.scrape from PostScraper.run on: p is the peer step's
\* result, d the store after the similar channels, calls the platform
\* calls made so far.
scrape_after_similars(p, d, calls, from_date, t, fault) ==
    Once({IF ~r.ok
          THEN ScrapeEnd(r.err, "posts", r.db, p.fc, p.now, calls \cup {"iter"}, TRUE)
          ELSE Once({IF ~v.ok
                     THEN ScrapeEnd(v.err, "run_info", v.db, p.fc, p.now,
                                    calls \cup {"iter"}, TRUE)
                     ELSE ScrapeEnd("", "done", v.db, p.fc, p.now, calls \cup {"iter"}, TRUE) :
                       v \in {save_run_info(r.db, p.channel.channel_id, from_date, t,
                                            r.posts_scraped, t, p.now, fault)}}) :
            r \in {run(d, RunArgs(iter_messages(History(p.channel.channel_id), IterLimit),
                                  p.channel.channel_id, from_date, BatchSize, p.now,
                                  IF fault.at = "iter" THEN fault.k ELSE 0, fault.err,
                                  IF fault.at = "batch" THEN fault.k ELSE 0, 3))}})

\* ChannelScraper.scrape from scrape_channel_metadata on.
scrape_after_peer(p, name, from_date, t, fault) ==
    Once({IF ~m.ok
          THEN ScrapeEnd(m.err, "metadata", m.db, p.fc, p.now, p.calls \cup m.calls, TRUE)
          ELSE Once({IF ~s.ok
                     THEN ScrapeEnd(s.err, "similars", s.db, p.fc, p.now,
                                    p.calls \cup m.calls \cup s.calls, TRUE)
                     ELSE scrape_after_similars(p, s.db, p.calls \cup m.calls \cup s.calls,
                                       from_date, t, fault) :
                       s \in {scrape_similar_channels(m.db, p.channel, fault)}}) :
            m \in {scrape_channel_metadata(p.db, p.channel, name, fault)}})

\* ChannelScraper.scrape from get_peer on.
scrape_steps(d, f, w, name, from_date, t, fault) ==
    Once({IF ~p.ok
          THEN ScrapeEnd(p.err, "get_peer", p.db, p.fc, p.now, p.calls, FALSE)
          ELSE scrape_after_peer(p, name, from_date, t, fault) :
            p \in {get_peer(d, f, w, name, t, fault)}})

\* A faulty variant of scrape: the handle check is skipped.
MutantScrapeUnchecked(d, f, w, has_name, name, from_date, t, fault) ==
    scrape_steps(d, f, w, name, from_date, t, fault)

\* ChannelScraper.scrape(channel_name, from_date) of worker w at time t;
\* has_name = FALSE is channel_name None, on which re.match raises TypeError.
scrape(d, f, w, has_name, name, from_date, t, fault) ==
    IF ~has_name THEN ScrapeEnd("TypeError", "check_name", d, f, t, {}, FALSE)
    ELSE IF ~check_channel_name(name)
    THEN ScrapeEnd("", "check_name", d, f, t, {}, FALSE)
    ELSE scrape_steps(d, f, w, name, from_date, t, fault)

\* ---------------------------------------------------------- Consumer
\* datetime.strptime(task.get("from_date"), "%d-%m-%Y").
strptime(date, from_date) ==
    [raised |-> date # "ok",
     err |-> IF date = "none" THEN "TypeError" ELSE IF date = "bad" THEN "ValueError" ELSE "",
     value |-> from_date]

\* Consumer.requeue_to_end: publish a copy of the task to the queue; a
\* failure to connect or to publish is logged and swallowed.
requeue_to_end(q, msg, publishes) == IF publishes THEN Append(q, msg) ELSE q

\* What process_task does with the scrape's flag: TRUE = ack only, FALSE =
\* requeue_to_end and then ack.
Requeues(ack_flag) == ~ack_flag

\* What process_task returns on the paths that end before scrape is called.
TaskEnd(d, f, q, t, outcome, err, raised) ==
    [outcome |-> outcome, err |-> err, step |-> "none", raised |-> raised,
     ack_flag |-> TRUE, acked |-> TRUE, republished |-> FALSE, queue |-> q,
     db |-> d, fc |-> f, now |-> t, calls |-> {}, peerOk |-> FALSE]

\* The "scrape" branch of Consumer.process_task: strptime, scrape, then ack
\* or requeue_to_end and ack.
process_scrape_task(d, f, w, msg, q, t, fault, publishes) ==
    LET body == msg.body
        date == strptime(body.date, body.from_date)
    IN  IF date.raised THEN TaskEnd(d, f, q, t, "bad_date", date.err, TRUE)
        ELSE Once({[outcome |-> "scraped", err |-> sc.err, step |-> sc.step,
                    raised |-> FALSE, ack_flag |-> sc.ack_flag, acked |-> TRUE,
                    republished |-> Requeues(sc.ack_flag) /\ publishes,
                    queue |-> IF Requeues(sc.ack_flag)
                              THEN requeue_to_end(q, msg, publishes) ELSE q,
                    db |-> sc.db, fc |-> sc.fc, now |-> sc.now, calls |-> sc.calls,
                    peerOk |-> sc.peerOk] :
                     sc \in {scrape(d, f, w, body.has_name, body.channel_name, date.value,
                                    t, fault)}})

\* A faulty variant of process_task: the task's type is not looked at.
MutantProcessTaskAnyType(d, f, w, msg, q, t, fault, publishes) ==
    IF ~msg.body.decodable
    THEN TaskEnd(d, f, q, t, "undecodable", "JSONDecodeError", TRUE)
    ELSE process_scrape_task(d, f, w, msg, q, t, fault, publishes)

\* Consumer.process_task of worker w on the delivered message msg, with the
\* rest of the queue q: the message is acknowledged on every path.
process_task(d, f, w, msg, q, t, fault, publishes) ==
    IF ~msg.body.decodable
    THEN TaskEnd(d, f, q, t, "undecodable", "JSONDecodeError", TRUE)
    ELSE IF msg.body.type # "scrape"
    THEN TaskEnd(d, f, q, t, "unknown_type", "", FALSE)
    ELSE process_scrape_task(d, f, w, msg, q, t, fault, publishes)

\* ====================================================================
\* Spec: tasks are submitted to the queue and delivered, one at a time, to
\* one of the workers, while the platform, the store and the broker may
\* fail once per delivery.
\* ====================================================================
TaskBodies ==
    {Task(TRUE, "scrape", TRUE, GoodName, "ok", 2),
     Task(TRUE, "scrape", TRUE, MissingName, "ok", 2),
     Task(TRUE, "scrape", TRUE, AtName, "ok", 2),
     Task(TRUE, "scrape", FALSE, << >>, "ok", 2),
     Task(TRUE, "scrape", TRUE, GoodName, "none", 0),
     Task(TRUE, "scrape", TRUE, GoodName, "bad", 0),
     Task(TRUE, "other", TRUE, GoodName, "ok", 2),
     Task(FALSE, "", FALSE, << >>, "none", 0)}

Init ==
    /\ now = 0 /\ db = EmptyDb /\ bt = BtInit /\ fc = FloodCaretakerInit(0)
    /\ chk = ChkInit /\ rs = RsInit /\ lg = LgInit
    /\ ConsumerIdle

Tick ==
    /\ now < MaxTime /\ now' = now + 1
    /\ UNCHANGED <<db, bt, fc, chk, rs, lg, queue, fcs, last, hist, wk, lm, gp>>

\* A producer publishes a task.
Submit ==
    /\ hist.submitted < MaxTasks
    /\ \E b \in TaskBodies :
         queue' = Append(queue, [id |-> hist.submitted + 1, body |-> b])
    /\ hist' = [hist EXCEPT !.submitted = @ + 1]
    /\ UNCHANGED <<now, db, bt, fc, chk, rs, lg, fcs, last, wk, lm, gp>>

\* The tables a task's result is read from (everything but the Peers cache).
PublicTables(d) == [d EXCEPT !.peers = {}]

\* The faults that can hit the delivery of a task: those of the platform
\* and the store when the task reaches get_peer, and a failing publish
\* when process_task calls requeue_to_end.
FaultsFor(body) ==
    IF /\ body.decodable /\ body.type = "scrape" /\ body.date = "ok"
       /\ body.has_name /\ check_channel_name(body.channel_name)
    THEN Faults ELSE {NoFault}

Deliveries(w, fault) ==
    LET Outcome(publishes) ==
            process_task(db, fcs[w], w, Head(queue), Tail(queue), now, fault, publishes)
    IN  UNION {IF r.republished THEN {r, Outcome(FALSE)} ELSE {r} : r \in {Outcome(TRUE)}}

\* A scrape that ended in a task-bound error or on the handle check.
PermanentEnd(err, step) == err \in TaskBoundErrors \/ (err = "" /\ step = "check_name")

\* The broker delivers the oldest message to worker w.
ProcessTask ==
    /\ queue # << >> /\ hist.deliveries < MaxDeliveries
    /\ \E w \in Workers, fault \in FaultsFor(Head(queue).body) :
       \E r \in Deliveries(w, fault) :
         LET msg == Head(queue)
             pair == <<msg.body.channel_name, w>>
             before == {x \in hist.failed : x.id = msg.id}
             midBatch == r.step = "posts" /\ r.err = "SQLAlchemyError"
             retried == r.step = "done" /\ before # {}
         IN  /\ queue' = r.queue
             /\ db' = r.db
             /\ fcs' = [fcs EXCEPT ![w] = r.fc]
             /\ now' = r.now
             /\ last' = [id |-> msg.id, w |-> w, body |-> msg.body, outcome |-> r.outcome,
                         err |-> r.err, at |-> r.step, ack_flag |-> r.ack_flag,
                         acked |-> r.acked, republished |-> r.republished,
                         raised |-> r.raised, calls |-> r.calls, prev |-> db,
                         start |-> now, peerOk |-> r.peerOk,
                         wasResolved |-> pair \in hist.resolved,
                         ref |-> IF retried
                                 THEN scrape((CHOOSE x \in before : TRUE).base,
                                             FloodCaretakerInit(0), w, TRUE,
                                             msg.body.channel_name, msg.body.from_date,
                                             now, NoFault).db
                                 ELSE EmptyDb,
                         retried |-> retried, fcPrev |-> fcs[w],
                         fweSecs |-> IF fault.at = "resolve" THEN fault.seconds ELSE 0]
             /\ hist' = [hist EXCEPT
                           !.deliveries = @ + 1,
                           !.resolved = IF r.peerOk THEN @ \cup {pair} ELSE @,
                           !.permanent = IF r.outcome = "scraped" /\ PermanentEnd(r.err, r.step)
                                         THEN @ \cup {msg.id} ELSE @,
                           !.failed = IF midBatch /\ before = {}
                                      THEN before \cup {[id |-> msg.id, base |-> db]}
                                      ELSE before]
    /\ UNCHANGED <<bt, fc, chk, rs, lg, wk, lm, gp>>

Next == Tick \/ Submit \/ ProcessTask

Spec == Init /\ [][Next]_vars

\* ------------------------------------------------------------- claims
InQueue(id) == \E i \in 1..Len(queue) : queue[i].id = id

\* C1: a scrape task whose processing ends in a transient or unrecognized
\* error is not acknowledged and is back in the queue.
C1_RetryableNotAcked ==
    (last.outcome = "scraped" /\ last.err # "" /\ last.err \notin TaskBoundErrors) =>
        (~last.acked /\ InQueue(last.id))

\* C2: a scrape task whose processing ends in a permanent, task-bound error
\* (or on the handle check) is acknowledged, no copy of it is published, and
\* it is never in the queue again.
C2_PermanentDropped ==
    /\ (last.outcome = "scraped" /\ PermanentEnd(last.err, last.at)) =>
            (last.acked /\ ~last.republished /\ last.id \in hist.permanent)
    /\ \A id \in hist.permanent : ~InQueue(id)

\* C2 witness: a task for a channel that has become private ended in
\* ChannelPrivateError after its peer was stored, and was acknowledged.
C2_Witness ==
    /\ last.outcome = "scraped" /\ last.err = "ChannelPrivateError" /\ last.at = "metadata"
    /\ last.acked /\ ~InQueue(last.id) /\ db.peers # {} /\ queue # << >>

\* C4: a task that hit a store failure in a post batch is in the queue for
\* another delivery, and when a later delivery of it succeeds the store's
\* channels, similar links, posts, forward origins and run records are
\* those of one run that never failed.
C4_RetryEquivalent ==
    /\ (last.outcome = "scraped" /\ last.at = "posts" /\ last.err = "SQLAlchemyError") =>
            InQueue(last.id)
    /\ last.retried => PublicTables(db) = PublicTables(last.ref)

\* C7: once get_peer has returned a peer for (handle, worker), no later
\* get_peer of that pair calls the external resolution.
C7_ResolveOnce ==
    (last.outcome = "scraped" /\ last.wasResolved) => "resolve" \notin last.calls

\* C7 witness: a second task of a resolved pair ran to its end without the
\* resolution call, while the other platform calls were made.
C7_Witness ==
    /\ last.outcome = "scraped" /\ last.wasResolved /\ last.at = "done"
    /\ "resolve" \notin last.calls /\ "full_channel" \in last.calls
    /\ \E p \in db.peers : p.scraper_id = last.w /\ p.channel_name = last.body.channel_name

\* C10: a task whose handle fails check_channel_name is acknowledged and
\* gone from the queue, the store is as it was before the delivery, and no
\* call to the platform was made.
C10_InvalidHandle ==
    (/\ last.outcome = "scraped" /\ last.body.has_name
     /\ ~check_channel_name(last.body.channel_name)) =>
        (/\ last.acked /\ ~InQueue(last.id) /\ ~last.republished
         /\ db = last.prev /\ last.calls = {})

\* C10 witness: the task with the handle "@n" was delivered when the store
\* already held the rows of an earlier task, and left them as they were.
C10_Witness ==
    /\ last.outcome = "scraped" /\ last.body.channel_name = AtName
    /\ last.acked /\ ~InQueue(last.id) /\ last.prev.runs # {} /\ db = last.prev

\* A payload the consumer cannot use: a body that is not JSON, or a scrape
\* task whose from_date is not a DD-MM-YYYY date or whose channel_name is
\* absent.
Malformed(body) ==
    \/ ~body.decodable
    \/ body.type = "scrape" /\ (body.date = "bad" \/ ~body.has_name)

\* C11: a task with a malformed payload is acknowledged, no copy of it is
\* published or in the queue, and the store is as it was before the
\* delivery.
C11_MalformedDropped ==
    (last.id # 0 /\ Malformed(last.body)) =>
        (/\ last.acked /\ ~last.republished /\ ~InQueue(last.id)
         /\ db = last.prev)

\* C12: a task whose type is not "scrape" is acknowledged without an
\* exception, is not published again, and nothing was processed: no call to
\* the platform, the store and the worker's caretaker as they were.
C12_UnknownTypeDropped ==
    (last.id # 0 /\ last.body.decodable /\ last.body.type # "scrape") =>
        (/\ last.outcome = "unknown_type" /\ last.acked /\ ~last.raised
         /\ ~last.republished /\ ~InQueue(last.id)
         /\ last.calls = {} /\ ~last.peerOk /\ db = last.prev)

\* C12 witness: a task of type "other" was delivered after a scrape task
\* had filled the store, and was acknowledged with the store untouched.
C12_Witness ==
    /\ last.body.decodable /\ last.body.type = "other" /\ last.outcome = "unknown_type"
    /\ last.acked /\ last.prev.runs # {} /\ db = last.prev /\ ~InQueue(last.id)

\* C13: a scrape task with a valid channel_name and no from_date reaches
\* the scraper: scrape is called for it and no exception leaves
\* process_task.
C13_FromDateOptional ==
    (/\ last.id # 0 /\ last.body.decodable /\ last.body.type = "scrape"
     /\ last.body.has_name /\ check_channel_name(last.body.channel_name)
     /\ last.body.date = "none") =>
        (last.outcome = "scraped" /\ ~last.raised)

\* C14: when the store fails at any statement of a post batch, the store is
\* exactly what it was before the batch, no row of the batch is reported
\* written, and the exception is one scrape answers with the retry flag.
C14_BatchAtomic ==
    bt.storeFailed =>
        (/\ db = bt.prev /\ bt.written = << >> /\ ~bt.ok
         /\ ~AckFlag("SQLAlchemyError"))

\* C14 witness: a batch of two posts failed in the store after an earlier
\* batch had been committed, and the earlier rows are all that is stored.
C14_Witness ==
    /\ bt.storeFailed /\ bt.kind = "posts" /\ Len(bt.posts) >= 2
    /\ bt.prev.posts_metadata # {} /\ db = bt.prev

\* The stored values of post p equal its observation x: its metadata, flags
\* and metrics rows carry x's values, and the content and the forward
\* origin are x's, an absent row standing for the empty record.
StoredAsObserved(d, p, x) ==
    \E m \in d.posts_metadata :
        /\ m.channel_id = x.posts_metadata.channel_id /\ m.post_id = p.id
        /\ m.post_date = x.posts_metadata.post_date
        /\ m.scrape_date = x.posts_metadata.scrape_date
        /\ [id |-> m.id, pinned |-> x.posts_flags.pinned,
            fwd_from_flag |-> x.posts_flags.fwd_from_flag] \in d.posts_flags
        /\ \E r \in d.posts_metrics :
              /\ r.id = m.id /\ r.views = x.posts_metrics.views
              /\ r.paid_reactions = x.posts_metrics.paid_reactions
              /\ r.standard_reactions = x.posts_metrics.standard_reactions
              /\ r.custom_reactions = x.posts_metrics.custom_reactions
        /\ \A c \in d.posts_content :
              c.id = m.id => (c.raw_text = x.posts_content.raw_text
                                /\ c.poll = x.posts_content.poll)
        /\ ContentNotEmpty(x.posts_content) => \E c \in d.posts_content : c.id = m.id
        /\ \A f \in d.forwards :
              f.id = m.id => (f.from_ch_id = x.forwards.from_ch_id
                                /\ f.from_post_id = x.forwards.from_post_id)
        /\ ForwardNotEmpty(x.forwards) => \E f \in d.forwards : f.id = m.id

\* C15: after a batch was upserted, every stored part of each of its
\* persisted posts equals the observation of that batch, also when the
\* observation's content or forward origin is empty.
C15_LastWriteWins ==
    (bt.kind = "posts" /\ bt.ok) =>
        \A i \in 1..Len(bt.posts) :
            \A x \in {scrape_post(bt.posts[i], TheChannel, bt.at)} :
                ~x.raised => StoredAsObserved(db, bt.posts[i], x)

\* ====================================================================
\* SpecWorkers: the workers consume the queue concurrently.  A delivery
\* starts a process_task coroutine in its worker; the coroutine advances
\* from one await to the next, and the steps of different coroutines
\* interleave freely.  get_peer is taken apart into its two transactions
\* and the platform call between them; the rest of scrape is one step.
\* ====================================================================
\* Consumer.run: rabbit_channel.set_qos(prefetch_count=1).
prefetch_count == 1

\* The handles of the tasks sent here: an occupied and an unoccupied one.
PeerHandles == {GoodName, MissingName}

\* A faulty variant of the consumer: the queue is consumed with no_ack, so
\* a message counts as acknowledged when it is delivered.
MutantCoroutineAutoAck(msg, pc, channel, ack_flag, acked) ==
    [msg |-> msg, pc |-> pc, channel |-> channel, ack_flag |-> ack_flag, acked |-> TRUE]

\* A process_task coroutine: the delivered message, the statement it is
\* at, the peer it holds, scrape's flag, and whether msg.ack() was called.
Coroutine(msg, pc, channel, ack_flag, acked) ==
    [msg |-> msg, pc |-> pc, channel |-> channel, ack_flag |-> ack_flag, acked |-> acked]

\* The deliveries of worker w the broker has no ack for.
Unacked(w) == {c \in wk.procs[w] : ~c.acked}

\* A faulty variant of the consumer: no qos is set, and the broker hands a
\* worker every message it has.
MutantDeliverUnlimited(w) == TRUE

\* What set_qos(prefetch_count) makes of the broker: worker w is handed a
\* message only while it holds fewer than prefetch_count unacknowledged ones.
MayDeliver(w) == Cardinality(Unacked(w)) < prefetch_count

\* The coroutines of worker w that are in process_task before its end.
Processing(w) == {c \in wk.procs[w] : c.pc # "done"}

\* The coroutine c of worker w becomes c2.
Step(w, c, c2) == wk' = [wk EXCEPT !.procs[w] = (@ \ {c}) \cup {c2}]

\* Where scrape's flag takes process_task: to msg.ack(), or to
\* requeue_to_end first.
AfterScrape(c, ack_flag) ==
    [c EXCEPT !.ack_flag = ack_flag, !.pc = IF Requeues(ack_flag) THEN "requeue" ELSE "ack"]

InitWorkers ==
    /\ now = 0 /\ db = EmptyDb /\ bt = BtInit /\ fc = FloodCaretakerInit(0)
    /\ chk = ChkInit /\ rs = RsInit /\ lg = LgInit
    /\ ConsumerIdle

\* A producer publishes a scrape task; the message is its body alone (the
\* id field, an observer's tag in Spec, is left 0).
WSend ==
    /\ wk.sent < MaxWorkerTasks
    /\ \E name \in PeerHandles :
         queue' = Append(queue, [id |-> 0,
                                 body |-> Task(TRUE, "scrape", TRUE, name, "ok", 2)])
    /\ wk' = [wk EXCEPT !.sent = @ + 1]
    /\ UNCHANGED <<now, db, bt, fc, chk, rs, lg, fcs, last, hist, lm, gp>>

\* The broker hands the oldest message to a worker that holds fewer than
\* prefetch_count unacknowledged deliveries; process_task decodes it and
\* scrape passes the handle check.
WDeliver ==
    /\ queue # << >>
    /\ \E w \in Workers :
         /\ MayDeliver(w)
         /\ wk' = [wk EXCEPT !.procs[w] =
                      @ \cup {Coroutine(Head(queue), "select", NoChannel, TRUE, FALSE)}]
    /\ queue' = Tail(queue)
    /\ UNCHANGED <<now, db, bt, fc, chk, rs, lg, fcs, last, hist, lm, gp>>

\* get_peer, first transaction.
WPeerSelect ==
    /\ \E w \in Workers : \E c \in wk.procs[w] :
         /\ c.pc = "select"
         /\ \E rows \in {peers_select(db, w, c.msg.body.channel_name)} :
              IF Cardinality(rows) > 1
              THEN /\ Step(w, c, AfterScrape(c, AckFlag("SQLAlchemyError")))
                   /\ UNCHANGED <<now, fcs, lm, gp>>
              ELSE IF rows # {}
              THEN \E p \in rows : \E r \in {peer_loaded(db, fcs[w], p, now)} :
                     /\ fcs' = [fcs EXCEPT ![w] = r.fc]
                     /\ now' = r.now
                     /\ IF r.ok
                        THEN Step(w, c, [c EXCEPT !.pc = "rest", !.channel = r.channel])
                        ELSE Step(w, c, AfterScrape(c, AckFlag(r.err)))
              ELSE /\ Step(w, c, [c EXCEPT !.pc = "resolve"])
                   /\ UNCHANGED <<now, fcs, lm, gp>>
    /\ UNCHANGED <<db, bt, fc, chk, rs, lg, queue, last, hist, lm, gp>>

\* get_peer, the platform call.
WPeerResolve ==
    /\ \E w \in Workers : \E c \in wk.procs[w] :
         /\ c.pc = "resolve"
         /\ \E fault \in {NoFault, Fault("resolve", "FloodWaitError", 0)} :
            \E r \in {resolve_call(fcs[w], w, c.msg.body.channel_name, now, fault)} :
              /\ fcs' = [fcs EXCEPT ![w] = r.fc]
              /\ now' = r.now
              /\ IF r.ok
                 THEN Step(w, c, [c EXCEPT !.pc = "insert", !.channel = r.channel])
                 ELSE Step(w, c, AfterScrape(c, AckFlag(r.err)))
    /\ UNCHANGED <<db, bt, fc, chk, rs, lg, queue, last, hist, lm, gp>>

\* get_peer, second transaction.
WPeerInsert ==
    /\ \E w \in Workers : \E c \in wk.procs[w] :
         /\ c.pc = "insert"
         /\ db' = peers_insert(db, w, c.msg.body.channel_name, c.channel)
         /\ Step(w, c, [c EXCEPT !.pc = "rest"])
    /\ UNCHANGED <<now, bt, fc, chk, rs, lg, queue, fcs, last, hist, lm, gp>>

\* scrape from scrape_channel_metadata to its return.
WScrapeRest ==
    /\ \E w \in Workers : \E c \in wk.procs[w] :
         /\ c.pc = "rest"
         /\ \E fault \in {NoFault, Fault("full_channel", "TimeoutError", 0)} :
            \E r \in {scrape_after_peer([db |-> db, fc |-> fcs[w], now |-> now,
                                         calls |-> {}, channel |-> c.channel],
                                        c.msg.body.channel_name, c.msg.body.from_date,
                                        now, fault)} :
              /\ db' = r.db
              /\ Step(w, c, AfterScrape(c, r.ack_flag))
    /\ UNCHANGED <<now, bt, fc, chk, rs, lg, queue, fcs, last, hist, lm, gp>>

\* requeue_to_end: the copy is published, or the failure is swallowed.
WRequeue ==
    /\ \E w \in Workers : \E c \in wk.procs[w] :
         /\ c.pc = "requeue"
         /\ \E publishes \in BOOLEAN : queue' = requeue_to_end(queue, c.msg, publishes)
         /\ Step(w, c, [c EXCEPT !.pc = "ack"])
    /\ UNCHANGED <<now, db, bt, fc, chk, rs, lg, fcs, last, hist, lm, gp>>

\* await msg.ack()
WAck ==
    /\ \E w \in Workers : \E c \in wk.procs[w] :
         /\ c.pc = "ack"
         /\ Step(w, c, [c EXCEPT !.pc = "done", !.acked = TRUE])
    /\ UNCHANGED <<now, db, bt, fc, chk, rs, lg, queue, fcs, last, hist, lm, gp>>

\* process_task returns.
WReturn ==
    /\ \E w \in Workers : \E c \in wk.procs[w] :
         /\ c.pc = "done"
         /\ wk' = [wk EXCEPT !.procs[w] = @ \ {c}]
    /\ UNCHANGED <<now, db, bt, fc, chk, rs, lg, queue, fcs, last, hist, lm, gp>>

NextWorkers ==
    \/ WSend \/ WDeliver \/ WPeerSelect \/ WPeerResolve \/ WPeerInsert
    \/ WScrapeRest \/ WRequeue \/ WAck \/ WReturn

SpecWorkers == InitWorkers /\ [][NextWorkers]_vars

\* The Peers rows of one (handle, worker).
PeerRows(d, name, w) == {p \in d.peers : p.channel_name = name /\ p.scraper_id = w}

\* C16: whatever the interleaving of the workers' get_peer steps, the Peers
\* table holds at most one row for a (handle, worker), and a row once
\* written stays as it is: its channel id and access hash never change.
C16_PeerUnique ==
    /\ [](\A name \in PeerHandles, w \in Workers : Cardinality(PeerRows(db, name, w)) <= 1)
    /\ [][\A p \in db.peers : p \in db'.peers]_vars

\* C16 witness: both workers hold their own row for the same handle, with
\* different access hashes, while a coroutine is still running.
C16_Witness ==
    /\ \A w \in Workers : Cardinality(PeerRows(db, GoodName, w)) = 1
    /\ \E p1, p2 \in db.peers : p1.access_hash # p2.access_hash
    /\ \E w \in Workers : Processing(w) # {}

\* The coroutines of worker w that are inside a call on the platform
\* session (ResolveUsername, or the calls of the rest of scrape).
UsingSession(w) == {c \in wk.procs[w] : c.pc \in {"resolve", "rest"}}

\* C17: a worker has at most one task in process_task at any time: a
\* message is handed to it only when every earlier one has been
\* acknowledged, and at most one coroutine uses its platform session.
C17_OneTaskPerWorker ==
    \A w \in Workers :
        /\ Cardinality(Processing(w)) <= 1
        /\ Cardinality(UsingSession(w)) <= 1
        /\ \A c1, c2 \in wk.procs[w] : c1 # c2 => (c1.acked \/ c2.acked)

\* C17 witness: a message waits in the queue while each worker is inside
\* process_task, one of them in a call on its platform session.
C17_Witness ==
    /\ queue # << >>
    /\ \A w \in Workers : Cardinality(Processing(w)) = 1
    /\ \E w \in Workers : UsingSession(w) # {}

\* C18: a delivery handled by process_task ends in exactly one of the two
\* terminal states: Acknowledged (the message was acked and the task is not
\* in the queue again) or Redelivered (the message was not acked and the
\* task is back in the queue).
C18_OneTerminalState ==
    last.id # 0 =>
        \/ last.acked /\ ~last.republished /\ ~InQueue(last.id)
        \/ ~last.acked /\ InQueue(last.id)

\* The posts of the run in the order they were handed to scrape_posts_batch.
Handed == Concat(rs.flushed)

RecommendationsFailed ==
    /\ last.outcome = "scraped" /\ "recommendations" \in last.calls
    /\ last.at = "similars" /\ last.err \in ChannelErrors

\* C20: when the fetch of the recommendations fails, the scrape still goes
\* on to the posts and writes its run record, and the task is neither
\* retried nor ended by that error.
C20_RecommendationsOptional ==
    RecommendationsFailed =>
        (/\ last.ack_flag /\ ~last.republished
         /\ "iter" \in last.calls
         /\ db.runs # last.prev.runs)

\* C21: check() never suspends its caller: the time at which the last
\* check() returned or raised is the time at which it was called.
C21_CheckNeverWaits == chk.ret = chk.at

\* The FloodWaitError wait of caretaker f is running at time t.
CooldownActive(f, t) == f.fwe_delay # NoneT /\ (t - f.last_fwe) < f.fwe_delay

\* The last delivery's get_peer looked the pair up and found no row.
PeerMissed ==
    /\ last.outcome = "scraped" /\ last.body.has_name
    /\ check_channel_name(last.body.channel_name)
    /\ PeerRows(last.prev, last.body.channel_name, last.w) = {}
    /\ ~(last.at = "get_peer" /\ last.err = "SQLAlchemyError" /\ last.calls = {})

\* C22: a get_peer that misses the Peers table while its worker's flood
\* wait is running makes no ResolveUsername call and stores no Peers row;
\* the FloodWaitError raised by check() leaves get_peer uncaught (the
\* caretaker is as it was), and scrape answers it with the retry flag.
C22_CooldownBlocksResolve ==
    (PeerMissed /\ CooldownActive(last.fcPrev, last.start)) =>
        (/\ "resolve" \notin last.calls /\ db.peers = last.prev.peers
         /\ last.at = "get_peer" /\ last.err = "FloodWaitError"
         /\ fcs[last.w] = last.fcPrev
         /\ ~last.ack_flag)

\* C22 witness: a task was delivered to a worker whose earlier resolution
\* had been answered with FloodWaitError, and ended in get_peer with no
\* call and no row.
C22_Witness ==
    /\ PeerMissed /\ CooldownActive(last.fcPrev, last.start)
    /\ last.err = "FloodWaitError" /\ last.calls = {} /\ db.peers = {}
    /\ hist.deliveries = 2

\* C23: a get_peer of worker w that finds the pair's row while w's flood
\* wait is running returns the stored peer: the coroutine goes on to the
\* rest of scrape with that peer, without the ResolveUsername step, and
\* the store and every field of w's caretaker are as they were.
C23_KnownPeerIgnoresCooldown ==
    [][\A w \in Workers : \A c \in wk.procs[w] :
         (/\ c.pc = "select" /\ c \notin wk'.procs[w]
          /\ Cardinality(PeerRows(db, c.msg.body.channel_name, w)) = 1
          /\ CooldownActive(fcs[w], now)) =>
            (/\ fcs' = fcs /\ db' = db /\ now' = now
             /\ \E p \in PeerRows(db, c.msg.body.channel_name, w) :
                  [c EXCEPT !.pc = "rest",
                            !.channel = [channel_id |-> p.channel_id,
                                         access_hash |-> p.access_hash]]
                      \in wk'.procs[w])]_vars

\* C23 witness: a worker whose flood wait is running is in the rest of
\* scrape for a channel whose peer it had stored before the wait began.
C23_Witness ==
    \E w \in Workers : \E c \in wk.procs[w] :
        /\ c.pc = "rest" /\ CooldownActive(fcs[w], now)
        /\ PeerRows(db, c.msg.body.channel_name, w) # {}
        /\ c.channel.access_hash = AccessHash(w, TheChannel)

\* C24: when the ResolveUsername call of a delivery is made and answers
\* with a FloodWaitError of d seconds, the worker's caretaker holds a flood
\* wait of exactly d seconds that began at the time of the call, the Peers
\* table is as it was, and the delivery ends in that FloodWaitError raised
\* out of get_peer.
C24_FloodWaitRecorded ==
    (last.outcome = "scraped" /\ "resolve" \in last.calls /\ last.fweSecs > 0) =>
        (/\ fcs[last.w].fwe_delay = last.fweSecs * TicksPerSec
         /\ fcs[last.w].last_fwe = last.start
         /\ db.peers = last.prev.peers
         /\ last.err = "FloodWaitError" /\ last.at = "get_peer" /\ ~last.peerOk)

\* C24 witness: a ResolveUsername call made after time 0 answered with a
\* FloodWaitError of more than one second.
C24_Witness ==
    /\ last.outcome = "scraped" /\ "resolve" \in last.calls
    /\ last.fweSecs = MaxFweSecs /\ last.start > 0
    /\ fcs[last.w].fwe_delay = MaxFweSecs * TicksPerSec
    /\ PeerRows(db, last.body.channel_name, last.w) = {}

\* C25: a delivery that ends in a FloodWaitError raised by a Telegram call
\* (ResolveUsername, GetFullChannel, GetChannelRecommendations or
\* iter_messages; not the one flood_care.check() builds itself) is to be
\* retried, and the worker's caretaker holds a flood wait that began during
\* that delivery.
C25_EveryFloodWaitRecorded ==
    (/\ last.outcome = "scraped" /\ last.err = "FloodWaitError"
     /\ (last.at # "get_peer" \/ "resolve" \in last.calls)) =>
        (/\ ~last.ack_flag
         /\ fcs[last.w].fwe_delay # NoneT
         /\ fcs[last.w].last_fwe # NoneT /\ fcs[last.w].last_fwe >= last.start)

\* C26: the date a legacy scrape streams from is never earlier than the
\* requested from_date, and it is the requested from_date itself when that
\* date is later than the to_date of every prior run of the channel.
C26_NeverEarlierThanRequested ==
    (lg.ran /\ lg.prepared) =>
        (/\ lg.start >= lg.req
         /\ (\A i \in 1..Len(PriorRuns) : lg.req > PriorRuns[i].to_date) =>
                lg.start = lg.req)

\* The ids of the posts_metadata rows of the posts of the last batch that
\* were extracted.
BatchIds ==
    {IdOf(db.posts_metadata, TheChannel, bt.posts[i].id) :
        i \in (1..Len(bt.posts)) \ FailedPosts}

\* C27: after a batch that was committed, the flags, metrics, content and
\* forward rows of each extracted post are stored under the id of that
\* post's posts_metadata row, with that post's values, and every dependent
\* row the batch added or changed has the id of the posts_metadata row of
\* an extracted post of the batch; so also when other posts of the batch
\* were skipped.
C27_DependentRowsKeyed ==
    (bt.kind = "posts" /\ bt.ok) =>
        /\ \A i \in (1..Len(bt.posts)) \ FailedPosts :
             LET x  == scrape_post(bt.posts[i], TheChannel, bt.at)
                 id == IdOf(db.posts_metadata, TheChannel, bt.posts[i].id)
             IN  /\ [id |-> id, pinned |-> x.posts_flags.pinned,
                     fwd_from_flag |-> x.posts_flags.fwd_from_flag] \in db.posts_flags
                 /\ [id |-> id, views |-> x.posts_metrics.views,
                     paid_reactions |-> x.posts_metrics.paid_reactions,
                     standard_reactions |-> x.posts_metrics.standard_reactions,
                     custom_reactions |-> x.posts_metrics.custom_reactions]
                        \in db.posts_metrics
                 /\ ContentNotEmpty(x.posts_content) =>
                        [id |-> id, raw_text |-> x.posts_content.raw_text,
                         poll |-> x.posts_content.poll] \in db.posts_content
                 /\ ForwardNotEmpty(x.forwards) =>
                        \E f \in db.forwards :
                            /\ f.id = id
                            /\ f \notin bt.prev.forwards =>
                                  /\ f.from_ch_id = x.forwards.from_ch_id
                                  /\ f.from_post_id = x.forwards.from_post_id
        /\ \A r \in (db.posts_flags \ bt.prev.posts_flags)
                      \cup (db.posts_metrics \ bt.prev.posts_metrics)
                      \cup (db.posts_content \ bt.prev.posts_content)
                      \cup (db.forwards \ bt.prev.forwards) : r.id \in BatchIds

\* C27 witness: a committed batch of three posts, one of them skipped, whose
\* first extracted post has the id 2, and which added a forward row.
C27_Witness ==
    /\ bt.kind = "posts" /\ bt.ok /\ Len(bt.posts) = 3 /\ Cardinality(FailedPosts) = 1
    /\ Len(bt.written) = 2
    /\ IdOf(db.posts_metadata, TheChannel, bt.written[1].post_id) = 2
    /\ db.forwards # bt.prev.forwards

\* C28: no stored posts_content row has all of its fields other than id
\* empty, and no stored forwards row has both from_ch_id and from_post_id
\* absent.
C28_NoEmptyRecords ==
    /\ \A c \in db.posts_content : c.raw_text # "" \/ c.poll # 0
    /\ \A f \in db.forwards : f.from_ch_id # 0 \/ f.from_post_id # 0

\* C28 witness: a committed batch held a post without text, poll and
\* forward next to a forwarded post with a poll; the first has its
\* posts_metadata row but no content and no forward row, the second has both.
C28_Witness ==
    /\ bt.kind = "posts" /\ bt.ok
    /\ \E i, j \in 1..Len(bt.posts) :
         /\ bt.posts[i] = Msg(1, "", "none", "none")
         /\ bt.posts[j] = Msg(3, "", "ok", "channel")
         /\ \A r \in db.posts_content \cup db.forwards :
               r.id # IdOf(db.posts_metadata, TheChannel, 1)
         /\ \E c \in db.posts_content, f \in db.forwards :
               /\ c.id = IdOf(db.posts_metadata, TheChannel, 3)
               /\ f.id = c.id

\* C29: no stored forwards row names as its source channel the channel of
\* the post it belongs to.
C29_NoSelfForward ==
    \A f \in db.forwards : \A m \in db.posts_metadata :
        m.id = f.id => f.from_ch_id # m.channel_id

\* ====================================================================
\* SpecLegacy: scrape_channel_metadata of channel_scraper.py, the metadata
\* step of the earlier worker (scraper/main.py), called again and again,
\* each call on the session its process_task opened.
\* ====================================================================
LegacyFaults ==
    {NoFault}
        \cup {Fault(a, e, 0) : a \in SourcePoints, e \in ChannelErrors}
        \cup {Fault(a, "SQLAlchemyError", 0) :
                 a \in {"channel_upsert", "similars_upsert", "commit"}}
        \cup {Fault("resolve", "FloodWaitError", 0)}

\* channel_scraper.get_channel_peer of the worker scraper_id on the session
\* whose view of the store is d: on a Peers row the InputPeerChannel is
\* built from the row's id and access_hash; otherwise the handle is resolved
\* and the new row is added and committed.
get_channel_peer(d, scraper_id, name, fault) ==
    LET rows == peers_select(d, scraper_id, name)
        id == Directory(name)
        entity == [channel_id |-> id, access_hash |-> AccessHash(scraper_id, id)]
    IN  IF rows # {}
        THEN Once({[ok |-> TRUE, err |-> "", hit |-> TRUE, db |-> d, calls |-> {},
                    channel |-> [channel_id |-> peer.id,
                                 access_hash |-> peer.access_hash]] :
                      peer \in {CHOOSE p \in rows : TRUE}})
        ELSE IF fault.at = "resolve"
        THEN [ok |-> FALSE, err |-> fault.err, hit |-> FALSE, db |-> d,
              calls |-> {"resolve"}, channel |-> NoChannel]
        ELSE [ok |-> TRUE, err |-> "", hit |-> FALSE,
              db |-> peers_insert(d, scraper_id, name, entity),
              calls |-> {"resolve"}, channel |-> entity]

\* The url column: "https://t.me/" + channel_name.
LegacyUrl(name) == <<"https://t.me/">> \o name

\* channel_scraper.scrape_channel_metadata with scrape_similar_channels on
\* the session whose view of the store is d: the exception that left it,
\* the session's view at that point, and whether db_session.commit() was
\* reached and went through.
legacy_scrape_channel_metadata(d, channel_id, name, chats, fault) ==
    LET full == FullChannel(channel_id)
        row  == [id |-> full.id, name |-> full.title, url |-> LegacyUrl(name),
                 participants |-> full.participants_count,
                 last_pinned_msg_id |-> full.pinned_msg_id, about |-> full.about]
        d1   == [d EXCEPT !.channels = {r \in @ : r.id # row.id} \cup {row}]
        d2   == similars_upsert(d1, channel_id, chats)
        Left(err, view, calls) ==
            [committed |-> FALSE, err |-> err, session |-> view, calls |-> calls]
    IN  IF fault.at = "full_channel" THEN Left(fault.err, d, {"full_channel"})
        ELSE IF fault.at = "channel_upsert"
        THEN Left("SQLAlchemyError", d, {"full_channel"})
        ELSE IF fault.at = "recommendations"
        THEN Left(fault.err, d1, {"full_channel", "recommendations"})
        ELSE IF fault.at = "similars_upsert" /\ chats # << >>
        THEN Left("SQLAlchemyError", d1, {"full_channel", "recommendations"})
        ELSE IF fault.at = "commit"
        THEN Left("SQLAlchemyError", d2, {"full_channel", "recommendations"})
        ELSE [committed |-> TRUE, err |-> "", session |-> d2,
              calls |-> {"full_channel", "recommendations"}]

\* The store once process_task of scraper/main.py has returned: the session
\* came from next(get_session()); on an exception nothing commits it, and
\* closing it rolls its transaction back.
legacy_session_end(d, res) == IF res.committed THEN res.session ELSE d

InitLegacy ==
    /\ ConsumerIdle
    /\ now = 0 /\ db = EmptyDb /\ bt = BtInit
    /\ fc = FloodCaretakerInit(0) /\ chk = ChkInit /\ rs = RsInit /\ lg = LgInit

\* One task of the earlier worker: scrape_channel up to the end of the
\* metadata step, then the end of process_task's session.
LegacyMetadata ==
    /\ lm.ops < MaxLegacyOps /\ lm.pc = "idle"
    /\ \E scraper_id \in Workers, chats \in ChatLists, fault \in LegacyFaults :
       \E p \in {get_channel_peer(db, scraper_id, GoodName, fault)} :
       \E res \in {IF p.ok
                   THEN legacy_scrape_channel_metadata(p.db, p.channel.channel_id,
                                                       GoodName, chats, fault)
                   ELSE [committed |-> FALSE, err |-> p.err, session |-> p.db,
                         calls |-> {}]} :
         /\ db' = legacy_session_end(p.db, res)
         /\ lm' = [ran |-> TRUE, channel_id |-> p.channel.channel_id, chats |-> chats,
                   err |-> res.err, calls |-> p.calls \cup res.calls,
                   committed |-> res.committed, session |-> res.session, prev |-> db,
                   ops |-> lm.ops + 1, scraper_id |-> scraper_id, hit |-> p.hit,
                   peer |-> p.channel, pc |-> IF res.committed THEN "posts" ELSE "idle",
                   msgs |-> << >>]
    /\ UNCHANGED <<now, bt, fc, chk, rs, lg, queue, fcs, last, hist, wk, gp>>

\* message_scraper.scrape_msgs_batch on the store d (tables post and
\* forwards of db_handler/database.py, here post and post_forwards): the
\* values of the Post insert name no id, so the store generates one for each
\* row and ON CONFLICT (id) finds none; the Forwards rows refer to a Post
\* row by the message id.  An exception leaves before db_session.commit().
scrape_msgs_batch(d, messages, channel_id, name, t) ==
    LET n == Len(messages)
        first == NextId(d.post)
        posts == {[id |-> first + k - 1, channel_id |-> channel_id,
                   url |-> LegacyUrl(name) \o <<messages[k].id>>,
                   post_date |-> messages[k].date, scrape_date |-> t,
                   raw_text |-> messages[k].raw_text,
                   fwd_from_flag |-> messages[k].fwd.kind # "none"] : k \in 1..n}
        fwds == {k \in 1..n : messages[k].fwd.kind = "channel"}
        ffirst == NextId(d.post_forwards)
        Nth(k) == Cardinality({j \in fwds : j < k})
        forwards == {[id |-> ffirst + Nth(k), from_ch_id |-> messages[k].fwd.ch,
                      from_post_id |-> messages[k].fwd.post, to_ch_id |-> channel_id,
                      to_post_id |-> messages[k].id] : k \in fwds}
        d1 == [d EXCEPT !.post = @ \cup posts]
    IN  IF \E k \in 1..n : scrape_poll_raises(messages[k])
        THEN [ok |-> FALSE, err |-> "AttributeError", db |-> d]
        ELSE IF \E f \in forwards :
                    \/ f.to_post_id \notin {r.id : r \in d1.post}
                    \/ f.to_ch_id \notin {r.id : r \in d1.channels}
        THEN [ok |-> FALSE, err |-> "SQLAlchemyError", db |-> d]
        ELSE [ok |-> TRUE, err |-> "",
              db |-> [d1 EXCEPT !.post_forwards = @ \cup forwards]]

\* iter_messages(channel, reverse=True, offset_date=from_date) of the earlier
\* worker: the posts of a history read oldest first.
LegacyMessages(b) == [k \in 1..Len(b) |-> b[Len(b) + 1 - k]]

\* The rest of scrape_channel after the metadata step: the posts of the
\* channel go through scrape_msgs_batch in one batch (batch_size is 250),
\* then the Runs row is added and committed.  The row names no to_date,
\* which the Runs table of db_handler/database.py requires: the insert goes
\* through or not with the schema the store was created from.
LegacyPosts ==
    /\ lm.pc = "posts"
    /\ \E b \in IF lm.channel_id = TheChannel THEN Batches \cup {<< >>} ELSE {<< >>},
          runs_ok \in BOOLEAN :
       \E res \in {IF b = << >> THEN [ok |-> TRUE, err |-> "", db |-> db]
                   ELSE scrape_msgs_batch(db, LegacyMessages(b), lm.channel_id,
                                          GoodName, now)} :
         /\ db' = IF res.ok /\ runs_ok
                  THEN [res.db EXCEPT !.runs = @ \cup
                           {[id |-> NextId(res.db.runs), channel_id |-> lm.channel_id,
                             from_date |-> 0, scrape_date |-> now,
                             posts_scraped |-> Len(b), exec_time |-> 0]}]
                  ELSE res.db
         /\ lm' = [lm EXCEPT !.pc = "idle", !.prev = db, !.msgs = LegacyMessages(b),
                             !.err = IF ~res.ok THEN res.err
                                     ELSE IF ~runs_ok THEN "SQLAlchemyError" ELSE "",
                             !.committed = res.ok /\ b # << >>]
    /\ UNCHANGED <<now, bt, fc, chk, rs, lg, queue, fcs, last, hist, wk, gp>>

NextLegacy == LegacyMetadata \/ LegacyPosts

SpecLegacy == InitLegacy /\ [][NextLegacy]_vars

\* C30: when GetChannelRecommendationsRequest fails after the channel's
\* descriptor was fetched and upserted, the channel's row is in the
\* committed store afterwards.
C30_ChannelRowKept ==
    (lm.ran /\ "recommendations" \in lm.calls /\ lm.err \in ChannelErrors) =>
        (\E r \in db.channels : r.id = lm.channel_id)

\* The recommendation list of the last operation names the similar channel.
Recommended(similar_channel_id) ==
    \E i \in 1..Len(bt.chats) : bt.chats[i].id = similar_channel_id

\* C31: every Similars row that was stored before the last operation is
\* still stored with its id, base channel and similar channel; a row whose
\* similar channel is not in the operation's recommendation list is
\* untouched, and one that is in it differs at most in name and title,
\* which are those of the list.
C31_SimilarsOnlyGrow ==
    \A e \in bt.prev.similars :
        \E e2 \in db.similars :
            /\ e2.id = e.id /\ e2.base_channel_id = e.base_channel_id
            /\ e2.similar_channel_id = e.similar_channel_id
            /\ (bt.kind # "similars" \/ ~Recommended(e.similar_channel_id)) => e2 = e
            /\ (bt.kind = "similars" /\ Recommended(e.similar_channel_id)) =>
                   \E i \in 1..Len(bt.chats) :
                       /\ bt.chats[i].id = e.similar_channel_id
                       /\ e2.similar_channel_name = bt.chats[i].username
                       /\ e2.similar_channel_title = bt.chats[i].title

\* C31 witness: a recommendation list that renames one stored edge and no
\* longer holds another was upserted; both edges are stored.
C31_Witness ==
    /\ bt.kind = "similars" /\ bt.chats = <<Chat(3, "c2")>>
    /\ Cardinality(bt.prev.similars) = 2 /\ Cardinality(db.similars) = 2
    /\ \E e \in bt.prev.similars : e.similar_channel_name = "c" /\ e \notin db.similars
    /\ \E e \in db.similars : e.similar_channel_id = 4 /\ e \in bt.prev.similars

\* The posts of the last delivery's channel that PostScraper.run reaches
\* and scrape_post can extract.
DuePosts ==
    {i \in 1..Len(History(Directory(last.body.channel_name))) :
        /\ SrcMsg(i).date >= last.body.from_date
        /\ ~scrape_poll_raises(SrcMsg(i))}

\* C32: no delivery changes or removes a Runs row.  A scrape that went
\* through get_peer, the metadata, the similar channels and the posts adds
\* exactly one Runs row, and by then its peer, its channel row and its posts
\* are stored; a scrape that stopped at a step has made none of the later
\* steps' calls and adds no Runs row; nor does any other delivery.
C32_PipelineAndLedger ==
    /\ last.prev.runs \subseteq db.runs
    /\ last.at # "done" => db.runs = last.prev.runs
    /\ last.at = "done" =>
         /\ last.outcome = "scraped"
         /\ Cardinality(db.runs \ last.prev.runs) = 1
         /\ \A r \in db.runs \ last.prev.runs :
               r.channel_id = Directory(last.body.channel_name)
         /\ {"full_channel", "recommendations", "iter"} \subseteq last.calls
         /\ PeerRows(db, last.body.channel_name, last.w) # {}
         /\ \E c \in db.channels : c.id = Directory(last.body.channel_name)
         /\ \A i \in DuePosts :
               \E m \in db.posts_metadata :
                   m.channel_id = Directory(last.body.channel_name) /\ m.post_id = i
    /\ last.at = "check_name" => last.calls = {}
    /\ last.at = "get_peer" => last.calls \subseteq {"resolve"}
    /\ last.at = "metadata" =>
         last.calls \cap {"recommendations", "iter"} = {} /\ last.peerOk
    /\ last.at = "similars" =>
         "iter" \notin last.calls /\ "full_channel" \in last.calls
    /\ last.at \in {"posts", "run_info"} =>
         {"full_channel", "recommendations", "iter"} \subseteq last.calls

\* C32 witness: a second completed scrape of the channel added its Runs
\* row to the one of the first, after storing a post.
C32_Witness ==
    /\ last.at = "done" /\ Cardinality(last.prev.runs) = 1 /\ Cardinality(db.runs) = 2
    /\ DuePosts # {} /\ "resolve" \notin last.calls

\* C33: the number a completed PostScraper.run returns is the number of
\* posts_metadata rows the run wrote (the store was empty before it).
C33_CountIsWritten ==
    (rs.ran /\ rs.ok) => rs.posts_scraped = Cardinality(db.posts_metadata)

\* The statements of process_task at which scrape has not yet returned.
InScrape == {"select", "resolve", "insert", "rest"}

\* C34: a delivery whose scrape has not returned is unacknowledged, also
\* while requeue_to_end is still to run; an acknowledged delivery is at
\* the end of process_task.
C34_AckAfterScrape ==
    \A w \in Workers : \A c \in wk.procs[w] :
        /\ c.pc \in InScrape \cup {"requeue", "ack"} => ~c.acked
        /\ c.acked => c.pc = "done"

\* C34 witness: a worker that has acknowledged one delivery at the end of
\* its process_task is inside scrape for the next one, unacknowledged.
C34_Witness ==
    \E w \in Workers : \E c, c2 \in wk.procs[w] :
        /\ c.pc = "rest" /\ ~c.acked
        /\ c2.pc = "done" /\ c2.acked

\* C35: a delivery whose scrape ended in a failure to be retried leaves the
\* queue with the tasks that were waiting, in their order, followed by the
\* failed task.
C35_RequeuedToEnd ==
    [][(/\ hist'.deliveries = hist.deliveries + 1
        /\ last'.outcome = "scraped" /\ ~last'.ack_flag) =>
            queue' = Append(Tail(queue), Head(queue))]_vars

\* C36: after process_task has finished with a scrape that is to be retried,
\* the task is in the queue, also when the publish of requeue_to_end raised.
C36_RetryableNeverLost ==
    (last.outcome = "scraped" /\ ~last.ack_flag) => InQueue(last.id)

\* C37: a Peers lookup that found a row returns the channel id and the
\* access hash that the resolution of that handle by that worker returned
\* and stored.
C37_CacheHitSamePair ==
    (lm.ran /\ lm.hit) =>
        \E p \in lm.prev.peers :
            /\ p.channel_name = GoodName /\ p.scraper_id = lm.scraper_id
            /\ lm.peer = [channel_id |-> Directory(GoodName),
                          access_hash |-> AccessHash(lm.scraper_id, Directory(GoodName))]
            /\ lm.peer = [channel_id |-> p.channel_id, access_hash |-> p.access_hash]

\* C38: the store holds at most one Post row for a channel and a post, in
\* the normalized table (channel_id, post_id) and in the wide table, whose
\* rows name the post by the channel id and the post's url.
C38_OnePostRow ==
    /\ \A r1, r2 \in db.posts_metadata :
            (r1.channel_id = r2.channel_id /\ r1.post_id = r2.post_id) => r1 = r2
    /\ \A r1, r2 \in db.post :
            (r1.channel_id = r2.channel_id /\ r1.url = r2.url) => r1 = r2

\* ------------------------------------------------------------ SpecPeer
\* SpecPeer: get_peer calls of the workers' ChannelScrapers while time
\* passes; each worker has its own FloodCaretaker.
PeerFaults ==
    {f \in Faults : /\ f.at \in {"none", "peer_select", "peer_insert", "resolve"}
                    /\ f.err \in {"", "SQLAlchemyError", "FloodWaitError",
                                  "UsernameNotOccupiedError"}}

InitPeer ==
    /\ now = 0 /\ db = EmptyDb /\ bt = BtInit /\ fc = FloodCaretakerInit(0)
    /\ chk = ChkInit /\ rs = RsInit /\ lg = LgInit
    /\ ConsumerIdle

PeerTick ==
    /\ now < MaxFloodTime /\ now' = now + 1
    /\ UNCHANGED <<db, bt, fc, chk, rs, lg, queue, fcs, last, hist, wk, lm, gp>>

\* One get_peer call of worker w; the worker is suspended while check sleeps.
GetPeer ==
    /\ gp.ops < MaxPeerCalls
    /\ \E w \in Workers, name \in PeerHandles, fault \in PeerFaults :
       \E r \in {get_peer(db, fcs[w], w, name, now, fault)} :
         /\ r.now <= MaxFloodTime
         /\ db' = r.db /\ now' = r.now
         /\ fcs' = [fcs EXCEPT ![w] = r.fc]
         /\ gp' = [ran |-> TRUE, w |-> w, prev |-> fcs[w], start |-> now, ok |-> r.ok,
                   err |-> r.err, calls |-> r.calls, ops |-> gp.ops + 1]
    /\ UNCHANGED <<bt, fc, chk, rs, lg, queue, last, hist, wk, lm>>

NextPeer == PeerTick \/ GetPeer

SpecPeer == InitPeer /\ [][NextPeer]_vars

\* The end of caretaker f's FloodWaitError wait.
Deadline(f) == f.last_fwe + f.fwe_delay

\* C39: a get_peer call never moves the end of its worker's flood wait to an
\* earlier time, and it records a new wait only when the one before it had
\* ended by the time of the call.
C39_DeadlineNeverEarlier ==
    (gp.ran /\ gp.prev.fwe_delay # NoneT) =>
        /\ fcs[gp.w].fwe_delay # NoneT
        /\ Deadline(fcs[gp.w]) >= Deadline(gp.prev)
        /\ fcs[gp.w] # gp.prev => gp.start >= Deadline(gp.prev)

\* C39 witness: a worker whose earlier wait had ended called ResolveUsername
\* again and was limited again; the new wait is shorter than the old one was
\* and ends later.
C39_Witness ==
    /\ gp.ran /\ gp.prev.fwe_delay # NoneT /\ gp.err = "FloodWaitError"
    /\ "resolve" \in gp.calls
    /\ fcs[gp.w].fwe_delay < gp.prev.fwe_delay
    /\ Deadline(fcs[gp.w]) > Deadline(gp.prev)

\* C40: when a run has returned, so that scrape records it with its lower
\* bound, every post the source held with a publish date at or after that
\* bound has a posts_metadata row, whatever the run's limit was.
C40_AllSinceLowerBoundWritten ==
    (rs.ran /\ rs.ok) =>
        \A i \in 1..Len(rs.src) :
            rs.src[i].date >= rs.from_date =>
                \E r \in db.posts_metadata :
                    r.channel_id = TheChannel /\ r.post_id = rs.src[i].id

====
